---- MODULE Spec2Model ----
(***************************************************************************)
(* Temporal text-layer extraction (steps/extract_text_layer.py).           *)
(*                                                                         *)
(* extract_text_layer is modelled as a state machine: the sampling loop of *)
(* read_sampled_frames and the per-frame loop of stabilize_frames advance  *)
(* one iteration per step, every later stage is one step.  Images are      *)
(* functions from pixel coordinates <<x, y>> to values; a video is given   *)
(* by the temporal behaviour of each of its pixels.  The pipeline around   *)
(* it, add_text_layer, FalAIWorker, CacheManager, generate_reference_images *)
(* and edit_frames are modelled each with a specification of its own.      *)
(***************************************************************************)
EXTENDS Integers, Sequences, FiniteSets, TLC

VARIABLES
    video,        \* the source: what cap.grab()/cap.retrieve() will deliver
    max_frames,   \* argument of read_sampled_frames
    stride,       \* argument of read_sampled_frames
    pc,           \* position of extract_text_layer
    cap,          \* the cv2.VideoCapture handle: "none", "closed", "open", "released"
    idx,          \* read_sampled_frames: decode index
    grabs,        \* number of cap.grab() calls made
    frames,       \* read_sampled_frames: the list of sampled frames
    stabilized,   \* stabilize_frames: the output list
    tr_log,       \* per frame, what _estimate_transform returned
    E_persist,    \* build_persistent_edges: mask
    E_raw,        \* build_persistent_edges: the local E, before the clean-up
    gray_stack,   \* build_persistent_edges: grayscale stack
    M_static,     \* low_variance_static: mask
    M_text,       \* keep_components_touching_seeds: mask
    overlay,      \* save_colored_overlay: the rgba buffer
    files,        \* the files that exist
    err,          \* the exception that left extract_text_layer, or NoError
    seen,         \* what the feature detector returned, per pair of images
    run_no,       \* which run of extract_text_layer on this frame stack
    first,        \* what the first run on this frame stack produced
    step,         \* position of VideoLocalizationPipeline.run
    args,         \* the arguments of add_text_layer
    result,       \* the value that was returned, or None
    ffmpeg_log,   \* the exit codes of the ffmpeg processes that were run
    run_err,      \* the exception that left run / add_text_layer, or NoError
    det,          \* _estimate_transform: what ORB and the matcher delivered
    est,          \* _estimate_transform: what it did and returned
    fal_key,      \* the environment: whether FAL_KEY is set
    cls_instance, \* FalAIWorker._instance
    inst,         \* the attributes of the FalAIWorker object, once created
    created,      \* how many FalAIWorker objects were allocated
    got,          \* what the calls on FalAIWorker returned or raised, in order
    status_log,   \* _poll_request: the statuses the service has reported
    attempt,      \* _poll_request: the local attempt
    poll_out,     \* _poll_request: how it ended, or "polling"
    cache,        \* CacheManager: the content of each cache file
    disk,         \* the frame files that exist
    video_stat,   \* mtime and size of the video file, or "missing"
    saved,        \* per arguments of save, the data last saved and not cleared since
    loaded,       \* what the last CacheManager.load returned
    original_person_registry,  \* argument of generate_reference_images
    new_descriptions,          \* what the description generator returns
    ref_out,      \* what generate_reference_images returned or raised
    cleaned_video_intervals,   \* argument of edit_frames
    edit_idx,     \* edit_frames: position of the loop
    edited_intervals,          \* edit_frames: the list being built
    edit_log,     \* edit_frames: per interval, what the two edits did
    edit_cached,  \* edit_frames: what was handed to cache_manager.save
    edit_out      \* what edit_frames returned or raised

vars == <<video, max_frames, stride, pc, cap, idx, grabs, frames, stabilized,
          tr_log, E_persist, E_raw, gray_stack, M_static, M_text, overlay, files, err,
          seen, run_no, first, step, args, result, ffmpeg_log, run_err,
          det, est, fal_key, cls_instance, inst, created, got, status_log, attempt,
          poll_out, cache, disk, video_stat, saved, loaded, original_person_registry,
          new_descriptions, ref_out, cleaned_video_intervals, edit_idx,
          edited_intervals, edit_log, edit_cached, edit_out>>

estVars == <<det, est>>
falVars == <<fal_key, cls_instance, inst, created, got>>
pollVars == <<status_log, attempt, poll_out>>
cacheVars == <<cache, disk, video_stat, saved, loaded>>
refVars == <<original_person_registry, new_descriptions, ref_out>>
editVars == <<cleaned_video_intervals, edit_idx, edited_intervals, edit_log, edit_cached,
              edit_out>>

\* The state of the other steps and utilities of the pipeline.
sideVars == <<estVars, falVars, pollVars, cacheVars, refVars, editVars>>

\* What the stages of extract_text_layer never touch.
outerVars == <<run_no, first, step, args, result, ffmpeg_log, run_err, sideVars>>

----------------------------------------------------------------------------
(* Bounds of the model. *)

MaxW == 5            \* frame width
MaxH == 3            \* frame height
MaxN == 5            \* longest stream (frames that cap.grab() delivers)
MaxStride == 2       \* largest stride argument
MaxFrames == 4       \* largest max_frames argument
MaxT == 4            \* longest stack handed to save_colored_overlay on its own

----------------------------------------------------------------------------
(* Tunable parameters of the program. *)

EDGE_TAU == 60
GRAY_STD_THR == 6
EDGE_TO_FILL_MAX_DIST == 3
MAX_COMPONENT_AREA_PERCENT == 6      \* MAX_COMPONENT_AREA_FRAC = 0.06
MIN_COMPONENT_AREA == 80
MIN_FRAMES == 3

None == "None"
NoError == [type |-> "none", msg |-> "none"]

\* The exceptions the code raises, by class and message.
OpenError == [type |-> "RuntimeError", msg |-> "Cannot open video"]
NotEnoughFramesError == [type |-> "RuntimeError", msg |-> "Not enough frames sampled"]
WriteError == [type |-> "RuntimeError", msg |-> "Failed to save"]
ZeroStrideError == [type |-> "ZeroDivisionError", msg |-> "integer modulo by zero"]
DecoderError == [type |-> "cv2.error", msg |-> "decoder"]

----------------------------------------------------------------------------
(* Images. *)

Grid(w, h) == (1..w) \X (1..h)

\* The function f on the set S, with every value computed once.
RECURSIVE Tabulate(_, _)
Tabulate(f, S) ==
    IF S = {} THEN <<>>
    ELSE LET x == CHOOSE y \in S : TRUE
         IN (x :> f[x]) @@ Tabulate(f, S \ {x})

Image(w, h, f) == [w |-> w, h |-> h, px |-> Tabulate(f, Grid(w, h))]

\* The value of a pixel of behaviour `kind` in the frame with decode index k,
\* as <<B, G, R>>.  "dark" and "text" never change, "jitter" moves by sensor
\* noise, "flicker" is moving footage (+-40 around 140).
KindValue(kind, k) ==
    CASE kind = "dark"    -> <<0, 0, 0>>
      [] kind = "text"    -> <<255, 255, 255>>
      [] kind = "jitter"  -> <<200 + 4 * (k % 3), 200 + 4 * (k % 3), 200 + 4 * (k % 3)>>
      [] kind = "flicker" -> <<100 + 40 * (k % 3), 100 + 40 * (k % 3), 100 + 40 * (k % 3)>>

Rects(w, h) ==
    {r \in [x0 : 1..w, x1 : 1..w, y0 : 1..h, y1 : 1..h] : r.x0 <= r.x1 /\ r.y0 <= r.y1}

InRect(p, r) == r.x0 <= p[1] /\ p[1] <= r.x1 /\ r.y0 <= p[2] /\ p[2] <= r.y1

\* A scene is a background, a rectangular block on it, and one odd pixel.
KindAt(scene, p) ==
    IF p = scene.hole THEN scene.holeKind
    ELSE IF InRect(p, scene.block) THEN scene.fg
    ELSE scene.bg

\* What cap.retrieve() delivers for decode index k: a frame of the video's
\* own width and height.  idx records where in the stream the frame came from.
Decode(v, k) ==
    [idx |-> k, w |-> v.w, h |-> v.h,
     px |-> Tabulate([p \in Grid(v.w, v.h) |-> KindValue(KindAt(v.scene, p), k)],
                     Grid(v.w, v.h))]

\* fault.kind: "none", or what goes wrong at decode index fault.at.
Faults ==
    {[kind |-> "none", at |-> 0]}
      \cup [kind : {"retrieve_false", "grab_raises", "retrieve_raises"}, at : 0..(MaxN - 1)]

Streams == [openable : BOOLEAN, n : 0..MaxN, fault : Faults]

----------------------------------------------------------------------------
(* read_sampled_frames *)

Raise(e) ==
    /\ pc' = "failed"
    /\ err' = e

sampleRest == <<video, max_frames, stride, stabilized, tr_log, E_persist, E_raw, gray_stack,
                M_static, M_text, overlay, files, seen, outerVars>>

\* Faulty variant: cap.isOpened() is not looked at.
OpenVideoUnchecked ==
    /\ pc = "start"
    /\ cap' = "open"
    /\ pc' = "grab"
    /\ UNCHANGED <<idx, grabs, frames, err>>
    /\ UNCHANGED sampleRest

\* cap = cv2.VideoCapture(path); if not cap.isOpened(): raise
OpenVideo ==
    /\ pc = "start"
    /\ IF video.stream.openable
         THEN /\ cap' = "open"
              /\ pc' = "grab"
              /\ err' = err
         ELSE /\ cap' = "closed"
              /\ Raise(OpenError)
    /\ UNCHANGED <<idx, grabs, frames>>
    /\ UNCHANGED sampleRest

FaultHere(kind) == video.stream.fault.kind = kind /\ video.stream.fault.at = idx

\* cap.grab() raises
GrabRaises ==
    /\ pc = "grab"
    /\ FaultHere("grab_raises")
    /\ grabs' = grabs + 1
    /\ Raise(DecoderError)
    /\ UNCHANGED <<cap, idx, frames>>
    /\ UNCHANGED sampleRest

\* grabbed = cap.grab(); if not grabbed: break
GrabEnd ==
    /\ pc = "grab"
    /\ ~FaultHere("grab_raises")
    /\ idx >= video.stream.n
    /\ grabs' = grabs + 1
    /\ pc' = "release"
    /\ UNCHANGED <<cap, idx, frames, err>>
    /\ UNCHANGED sampleRest

Grabbed ==
    /\ pc = "grab"
    /\ ~FaultHere("grab_raises")
    /\ idx < video.stream.n

\* idx % stride with stride = 0
ModuloRaises ==
    /\ Grabbed
    /\ stride = 0
    /\ grabs' = grabs + 1
    /\ Raise(ZeroStrideError)
    /\ UNCHANGED <<cap, idx, frames>>
    /\ UNCHANGED sampleRest

\* idx % stride != 0: idx += 1
SkipFrame ==
    /\ Grabbed
    /\ stride # 0
    /\ idx % stride # 0
    /\ grabs' = grabs + 1
    /\ idx' = idx + 1
    /\ UNCHANGED <<pc, cap, frames, err>>
    /\ UNCHANGED sampleRest

Selected ==
    /\ Grabbed
    /\ stride # 0
    /\ idx % stride = 0

\* cap.retrieve() raises
RetrieveRaises ==
    /\ Selected
    /\ FaultHere("retrieve_raises")
    /\ grabs' = grabs + 1
    /\ Raise(DecoderError)
    /\ UNCHANGED <<cap, idx, frames>>
    /\ UNCHANGED sampleRest

\* ok, f = cap.retrieve(); if not ok: break
RetrieveFails ==
    /\ Selected
    /\ FaultHere("retrieve_false")
    /\ grabs' = grabs + 1
    /\ pc' = "release"
    /\ UNCHANGED <<cap, idx, frames, err>>
    /\ UNCHANGED sampleRest

\* Faulty variant: the loop stops only when len(frames) > max_frames.
KeepFrameOneMore ==
    /\ Selected
    /\ ~FaultHere("retrieve_raises")
    /\ ~FaultHere("retrieve_false")
    /\ grabs' = grabs + 1
    /\ frames' = Append(frames, Decode(video, idx))
    /\ IF Len(frames') > max_frames
         THEN pc' = "release" /\ idx' = idx
         ELSE pc' = "grab" /\ idx' = idx + 1
    /\ UNCHANGED <<cap, err>>
    /\ UNCHANGED sampleRest

\* frames.append(f); if len(frames) >= max_frames: break; idx += 1
KeepFrame ==
    /\ Selected
    /\ ~FaultHere("retrieve_raises")
    /\ ~FaultHere("retrieve_false")
    /\ grabs' = grabs + 1
    /\ frames' = Append(frames, Decode(video, idx))
    /\ IF Len(frames') >= max_frames
         THEN pc' = "release" /\ idx' = idx
         ELSE pc' = "grab" /\ idx' = idx + 1
    /\ UNCHANGED <<cap, err>>
    /\ UNCHANGED sampleRest

\* Faulty variant: two frames are taken to be enough.
TooFewFramesBelowTwo(fs) == Len(fs) < 2

\* len(frames) < 3
TooFewFrames(fs) == Len(fs) < MIN_FRAMES

\* cap.release(); if len(frames) < 3: raise; return frames
ReleaseAndReturn ==
    /\ pc = "release"
    /\ cap' = "released"
    /\ IF TooFewFrames(frames)
         THEN Raise(NotEnoughFramesError)
         ELSE pc' = "stabilize" /\ err' = err
    /\ UNCHANGED <<idx, grabs, frames>>
    /\ UNCHANGED sampleRest

ReadSampledFrames ==
    \/ OpenVideo
    \/ GrabRaises
    \/ GrabEnd
    \/ ModuloRaises
    \/ SkipFrame
    \/ RetrieveRaises
    \/ RetrieveFails
    \/ KeepFrame
    \/ ReleaseAndReturn

----------------------------------------------------------------------------
(* stabilize_frames *)

\* cv2.cvtColor(f, cv2.COLOR_BGR2GRAY) on one 8-bit pixel <<B, G, R>>:
\* fixed-point weights 0.114, 0.587, 0.299 with 15 fractional bits, rounded.
GrayOf(bgr) == (bgr[1] * 3735 + bgr[2] * 19235 + bgr[3] * 9798 + 16384) \div 32768

cvtColor(f) == Image(f.w, f.h, [p \in Grid(f.w, f.h) |-> GrayOf(f.px[p])])

Clamp(v, lo, hi) == IF v < lo THEN lo ELSE IF v > hi THEN hi ELSE v

\* The transforms the estimator can return: whole-pixel translations
\* <<dx, dy>>, the homographies [[1,0,dx],[0,1,dy],[0,0,1]].
Homographies == {<<1, 0>>}
NoHomography == <<>>

\* The value of _estimate_transform: None, or ("homography", H).
NoTransform == [mode |-> "None", T |-> NoHomography]

\* What the feature detector and matcher can report for a pair of frames:
\* the number of keypoints in each, the number of matches that pass the ratio
\* test, and what cv2.findHomography returns.
Uniform(g) == \A p, q \in DOMAIN g.px : g.px[p] = g.px[q]

Detections(from_gray, to_gray) ==
    [k1 : IF Uniform(from_gray) THEN {0} ELSE {7, 8},
     k2 : IF Uniform(to_gray) THEN {0} ELSE {7, 8},
     good : {7, 8},
     H : {NoHomography} \cup Homographies]

MIN_KEYPOINTS == 8
MIN_GOOD_MATCHES == 8

\* Faulty variant: the descriptors and keypoint counts are not looked at.
_estimate_transform_unchecked(d) ==
    IF d.good < MIN_GOOD_MATCHES THEN NoTransform
    ELSE IF d.H # NoHomography THEN [mode |-> "homography", T |-> d.H]
    ELSE NoTransform

\* _estimate_transform(from_gray, to_gray, "homography"), given what the
\* detector, the matcher and the fit report.
_estimate_transform(d) ==
    IF d.k1 = 0 \/ d.k2 = 0 \/ d.k1 < MIN_KEYPOINTS \/ d.k2 < MIN_KEYPOINTS THEN NoTransform
    ELSE IF d.good < MIN_GOOD_MATCHES THEN NoTransform
    ELSE IF d.H # NoHomography THEN [mode |-> "homography", T |-> d.H]
    ELSE NoTransform

\* Faulty variant: the estimator draws on a random source of its own.
Unseeded(memo, from_gray, to_gray, tr) == TRUE

\* ORB_create, BFMatcher and findHomography are called afresh in every call
\* of _estimate_transform, keep nothing between calls and take no seed or
\* clock from the program (cv2's RANSAC starts its generator from the same
\* state in every call): for the same two images the value is the same.
\* memo holds the values returned so far.
Repeatable(memo, from_gray, to_gray, tr) ==
    <<from_gray, to_gray>> \in DOMAIN memo => memo[<<from_gray, to_gray>>] = tr

\* Faulty variant: the output size is given as (h, w).
warpPerspectiveTransposed(f, T, w, h) ==
    [idx |-> f.idx, w |-> h, h |-> w,
     px |-> Tabulate([p \in Grid(h, w) |->
                        f.px[<<Clamp(p[1] - T[1], 1, f.w), Clamp(p[2] - T[2], 1, f.h)>>]],
                     Grid(h, w))]

\* cv2.warpPerspective(f, T, (w, h), INTER_LINEAR, BORDER_REPLICATE) for a
\* translation T: the output has the size (w, h) asked for, pixel <<x, y>> is
\* the source pixel at <<x - dx, y - dy>>, clamped to the source's border.
warpPerspective(f, T, w, h) ==
    [idx |-> f.idx, w |-> w, h |-> h,
     px |-> Tabulate([p \in Grid(w, h) |->
                        f.px[<<Clamp(p[1] - T[1], 1, f.w), Clamp(p[2] - T[2], 1, f.h)>>]],
                     Grid(w, h))]

\* Faulty variant: the fallback appends the reference frame.
PassThroughReference(fs, i) == fs[1]

\* The fallback when no transform was found: stabilized.append(frames[i])
PassThrough(fs, i) == fs[i + 1]

stabRest == <<video, max_frames, stride, cap, idx, grabs, frames, E_persist, E_raw, gray_stack,
              M_static, M_text, overlay, files, err, outerVars>>

\* stabilized = [frames[0]]
StabilizeStart ==
    /\ pc = "stabilize"
    /\ stabilized = <<>>
    /\ stabilized' = <<frames[1]>>
    /\ tr_log' = <<NoTransform>>
    /\ UNCHANGED <<pc, seen>>
    /\ UNCHANGED stabRest

\* One iteration of the loop over range(1, len(frames)); i is 0-based as in
\* the code, sequences are 1-based.
StabilizeFrame ==
    /\ pc = "stabilize"
    /\ stabilized # <<>>
    /\ Len(stabilized) < Len(frames)
    /\ LET i == Len(stabilized)
           h == frames[1].h
           w == frames[1].w
           ref_gray == cvtColor(frames[1])
           g == cvtColor(frames[i + 1])
       IN \E d \in Detections(ref_gray, g) :
            LET tr == _estimate_transform(d)
            IN /\ Repeatable(seen, ref_gray, g, tr)
               /\ seen' = (<<ref_gray, g>> :> tr) @@ seen
               /\ tr_log' = Append(tr_log, tr)
               /\ stabilized' =
                    IF tr = NoTransform
                      THEN Append(stabilized, PassThrough(frames, i))
                      ELSE Append(stabilized, warpPerspective(frames[i + 1], tr.T, w, h))
    /\ UNCHANGED pc
    /\ UNCHANGED stabRest

\* return stabilized; frames = stabilize_frames(frames)
StabilizeReturn ==
    /\ pc = "stabilize"
    /\ stabilized # <<>>
    /\ Len(stabilized) = Len(frames)
    /\ pc' = "edges"
    /\ UNCHANGED <<stabilized, tr_log, seen>>
    /\ UNCHANGED stabRest

StabilizeFrames ==
    \/ StabilizeStart
    \/ StabilizeFrame
    \/ StabilizeReturn

----------------------------------------------------------------------------
(* Image operations of OpenCV and NumPy, on grayscale images and masks. *)

\* BORDER_REFLECT_101, the default border of GaussianBlur and Sobel.
Reflect101(i, n) ==
    IF n = 1 THEN 1
    ELSE IF i < 1 THEN 2 - i
    ELSE IF i > n THEN 2 * n - i
    ELSE i

PxAt(g, x, y) == g.px[<<Reflect101(x, g.w), Reflect101(y, g.h)>>]

\* cv2.GaussianBlur(gray, (3,3), 0) on 8-bit: the kernel [1 2 1]/4 in both
\* directions, rounded to the nearest integer.
GaussianBlur(g) ==
    Image(g.w, g.h, [p \in Grid(g.w, g.h) |->
        LET x == p[1]
            y == p[2]
        IN (      PxAt(g, x - 1, y - 1) + 2 * PxAt(g, x, y - 1) +     PxAt(g, x + 1, y - 1)
            + 2 * PxAt(g, x - 1, y)     + 4 * PxAt(g, x, y)     + 2 * PxAt(g, x + 1, y)
            +     PxAt(g, x - 1, y + 1) + 2 * PxAt(g, x, y + 1) +     PxAt(g, x + 1, y + 1)
            + 8) \div 16])

\* cv2.Sobel(gray, CV_32F, 1, 0, ksize=3) and (.., 0, 1, ..) at one pixel.
SobelX(g, x, y) ==
      (PxAt(g, x + 1, y - 1) + 2 * PxAt(g, x + 1, y) + PxAt(g, x + 1, y + 1))
    - (PxAt(g, x - 1, y - 1) + 2 * PxAt(g, x - 1, y) + PxAt(g, x - 1, y + 1))

SobelY(g, x, y) ==
      (PxAt(g, x - 1, y + 1) + 2 * PxAt(g, x, y + 1) + PxAt(g, x + 1, y + 1))
    - (PxAt(g, x - 1, y - 1) + 2 * PxAt(g, x, y - 1) + PxAt(g, x + 1, y - 1))

\* The square of cv2.magnitude(gx, gy), an integer.
MagSq(g) ==
    Tabulate([p \in Grid(g.w, g.h) |->
                SobelX(g, p[1], p[2]) * SobelX(g, p[1], p[2])
              + SobelY(g, p[1], p[2]) * SobelY(g, p[1], p[2])],
             Grid(g.w, g.h))

MaxOf(S) == CHOOSE m \in S : \A v \in S : v <= m
MinOf(S) == CHOOSE m \in S : \A v \in S : m <= v

\* The largest k in lo..hi with k * k <= n (lo * lo <= n).
RECURSIVE SqrtIn(_, _, _)
SqrtIn(n, lo, hi) ==
    IF lo = hi THEN lo
    ELSE LET mid == (lo + hi + 1) \div 2
         IN IF mid * mid <= n THEN SqrtIn(n, mid, hi) ELSE SqrtIn(n, lo, mid - 1)

ISqrt(n) == SqrtIn(n, 0, 255)

\* np.clip(mag / (mag.max() + 1e-6) * 255.0, 0, 255).astype(np.uint8) for a
\* pixel of squared magnitude sq in an image of largest squared magnitude
\* mx: the largest k with k * (sqrt(mx) + 1e-6) <= 255 * sqrt(sq).  In
\* float32 the 1e-6 is lost once mag.max() >= 32, so there k * k * mx <=
\* 65025 * sq; below, the comparison is strict.  (The division by mx is done
\* in two steps to stay within machine integers.)
NormU8(sq, mx) ==
    IF sq = 0 THEN 0
    ELSE LET a == (255 * sq) \div mx
             b == (255 * sq) % mx
             c == (255 * b) \div mx
             r == (255 * b) % mx
             F == 255 * a + c
         IN ISqrt(IF r > 0 \/ mx >= 1024 THEN F ELSE F - 1)

\* sobel_mag_u8(gray), GAUSS_BLUR = 1
sobel_mag_u8(gray) ==
    LET b == GaussianBlur(gray)
        sq == MagSq(b)
        mx == MaxOf({sq[p] : p \in DOMAIN sq})
    IN Image(gray.w, gray.h, [p \in Grid(gray.w, gray.h) |-> NormU8(sq[p], mx)])

\* A mask is an image with values in {0, 255}.
Mask(w, h, set) == Image(w, h, [p \in Grid(w, h) |-> IF set[p] THEN 255 ELSE 0])

Neigh(p, w, h) ==
    {q \in Grid(w, h) : q[1] - p[1] \in -1..1 /\ q[2] - p[2] \in -1..1}

\* cv2.erode / cv2.dilate with a 3x3 structuring element and the default
\* border: pixels outside the image never decide the result.
Erode(m) ==
    Mask(m.w, m.h, [p \in Grid(m.w, m.h) |-> \A q \in Neigh(p, m.w, m.h) : m.px[q] > 0])

Dilate(m) ==
    Mask(m.w, m.h, [p \in Grid(m.w, m.h) |-> \E q \in Neigh(p, m.w, m.h) : m.px[q] > 0])

MorphOpen(m) == Dilate(Erode(m))
MorphClose(m) == Erode(Dilate(m))

\* Sum of a function's values over a set of arguments.
RECURSIVE SumOver(_, _)
SumOver(f, S) ==
    IF S = {} THEN 0
    ELSE LET x == CHOOSE y \in S : TRUE IN f[x] + SumOver(f, S \ {x})

\* T*T times the variance over time of pixel p of a stack of T images.
VarT2(stack, p) ==
    LET T == Len(stack)
        s1 == SumOver([t \in 1..T |-> stack[t].px[p]], 1..T)
        s2 == SumOver([t \in 1..T |-> stack[t].px[p] * stack[t].px[p]], 1..T)
    IN T * s2 - s1 * s1

SameShape(stack) ==
    \A t \in 1..Len(stack) : stack[t].w = stack[1].w /\ stack[t].h = stack[1].h

----------------------------------------------------------------------------
(* build_persistent_edges *)

\* Q[p] * T: in how many frames pixel p is an edge (magnitude >= EDGE_TAU).
EdgeCount(mag_stack, p) ==
    Cardinality({t \in 1..Len(mag_stack) : mag_stack[t].px[p] >= EDGE_TAU})

\* Q >= PERSIST_QUANTILE (0.65) for a pixel that is an edge in c of T frames.
FrequentEnough(c, T) == 100 * c >= 65 * T

\* stability >= SCORE_MIN (0.15), where stability = Q * (1 - var_norm) and
\* var_norm = (v - vmin) / (vmax - vmin + 1e-6); v, vmin, vmax are given
\* times T*T.  With vmax = vmin, var_norm is 0.
StableEnough(c, T, v, vmin, vmax) ==
    IF vmax = vmin THEN 100 * c >= 15 * T
    ELSE \/ 100 * c * (vmax - v) > 15 * T * (vmax - vmin)
         \/ (100 * c * (vmax - v) = 15 * T * (vmax - vmin) /\ 100 * c >= 15 * T)

\* Faulty variant: the two conditions are joined with | in place of &.
RawEdgesEither(mag_stack, w, h) ==
    LET T == Len(mag_stack)
        var_g == Tabulate([p \in Grid(w, h) |-> VarT2(mag_stack, p)], Grid(w, h))
        vmin == MinOf({var_g[p] : p \in Grid(w, h)})
        vmax == MaxOf({var_g[p] : p \in Grid(w, h)})
    IN Mask(w, h, [p \in Grid(w, h) |->
          LET c == EdgeCount(mag_stack, p)
          IN FrequentEnough(c, T) \/ StableEnough(c, T, var_g[p], vmin, vmax)])
\* E before the morphological clean-up.
RawEdges(mag_stack, w, h) ==
    LET T == Len(mag_stack)
        var_g == Tabulate([p \in Grid(w, h) |-> VarT2(mag_stack, p)], Grid(w, h))
        vmin == MinOf({var_g[p] : p \in Grid(w, h)})
        vmax == MaxOf({var_g[p] : p \in Grid(w, h)})
    IN Mask(w, h, [p \in Grid(w, h) |->
          LET c == EdgeCount(mag_stack, p)
          IN FrequentEnough(c, T) /\ StableEnough(c, T, var_g[p], vmin, vmax)])

\* The three values build_persistent_edges returns; OPEN_ITERS = CLOSE_ITERS = 1.
build_persistent_edges(fs) ==
    LET w == fs[1].w
        h == fs[1].h
        grays == Tabulate([t \in 1..Len(fs) |-> cvtColor(fs[t])], 1..Len(fs))
        mags == Tabulate([t \in 1..Len(fs) |-> sobel_mag_u8(grays[t])], 1..Len(fs))
        E == RawEdges(mags, w, h)
    IN [E_persist |-> MorphClose(MorphOpen(E)),
        E_raw |-> E,
        gray_stack |-> grays,
        mag_stack |-> mags]

----------------------------------------------------------------------------
(* low_variance_static *)

\* std <= GRAY_STD_THR, on T*T times the variance
IsStatic(gs, p) == VarT2(gs, p) <= GRAY_STD_THR * GRAY_STD_THR * Len(gs) * Len(gs)

\* Faulty variant: the mask is dilated and not eroded again.
low_variance_static_dilated(gs) ==
    LET w == gs[1].w
        h == gs[1].h
        raw == Mask(w, h, [p \in Grid(w, h) |-> IsStatic(gs, p)])
    IN Dilate(raw)

low_variance_static(gs) ==
    LET w == gs[1].w
        h == gs[1].h
        raw == Mask(w, h, [p \in Grid(w, h) |-> IsStatic(gs, p)])
    IN MorphClose(raw)

----------------------------------------------------------------------------
(* keep_components_touching_seeds *)

\* cv2.distanceTransform(.., cv2.DIST_L2, 3) between two pixels: the 3x3
\* chamfer distance, 0.955 per straight step and 1.3693 per diagonal step,
\* times 10000.
Abs(v) == IF v < 0 THEN -v ELSE v

\* Faulty variant: the city-block distance.
ChamferCityBlock(p, q) == 10000 * (Abs(p[1] - q[1]) + Abs(p[2] - q[2]))

Chamfer(p, q) ==
    LET dx == Abs(p[1] - q[1])
        dy == Abs(p[2] - q[2])
        lo == IF dx < dy THEN dx ELSE dy
        hi == IF dx < dy THEN dy ELSE dx
    IN 13693 * lo + 9550 * (hi - lo)

\* Faulty variant: without any seed every distance is left at 0.
NearUnseeded(seeds, p, max_dist) ==
    \/ \A q \in DOMAIN seeds.px : seeds.px[q] = 0
    \/ \E q \in DOMAIN seeds.px : seeds.px[q] > 0 /\ Chamfer(p, q) <= 10000 * max_dist
\* dt <= max_dist; without any seed every distance is huge.
Near(seeds, p, max_dist) ==
    \E q \in DOMAIN seeds.px : seeds.px[q] > 0 /\ Chamfer(p, q) <= 10000 * max_dist

\* Faulty variant: the two masks are joined with bitwise_or.
keep_components_joined(candidates_mask, seed_mask, max_dist) ==
    Mask(candidates_mask.w, candidates_mask.h,
         [p \in Grid(candidates_mask.w, candidates_mask.h) |->
            candidates_mask.px[p] > 0 \/ Near(seed_mask, p, max_dist)])

\* gate = cv2.bitwise_and(cand, near)
keep_components_touching_seeds(candidates_mask, seed_mask, max_dist) ==
    Mask(candidates_mask.w, candidates_mask.h,
         [p \in Grid(candidates_mask.w, candidates_mask.h) |->
            candidates_mask.px[p] > 0 /\ Near(seed_mask, p, max_dist)])

----------------------------------------------------------------------------
(* save_colored_overlay *)

\* The sorted values of a sequence of numbers.
RECURSIVE Sorted(_)
Sorted(s) ==
    IF s = <<>> THEN <<>>
    ELSE LET i == CHOOSE j \in 1..Len(s) : \A k \in 1..Len(s) : s[j] <= s[k]
         IN <<s[i]>> \o Sorted([k \in 1..(Len(s) - 1) |-> IF k < i THEN s[k] ELSE s[k + 1]])

\* Faulty variant: the mean is taken in place of the median.
MeanU8(s) == SumOver(s, 1..Len(s)) \div Len(s)

\* np.median(vals, axis=0).astype(np.uint8) for one pixel's values
Median(s) ==
    LET srt == Sorted(s)
        n == Len(s)
    IN IF n % 2 = 1 THEN srt[(n + 1) \div 2]
       ELSE (srt[n \div 2] + srt[n \div 2 + 1]) \div 2

\* The values of channel c of pixel p in the frames of fs, in order.
Series(fs, p, c) == [t \in 1..Len(fs) |-> fs[t].px[p][c]]

\* Faulty variant: the alpha channel is a copy of the mask.
AlphaOfMask(mask, p) == mask.px[p]

\* rgba[:, :, 3] = (mask > 0).astype(np.uint8) * 255
AlphaOf(mask, p) == IF mask.px[p] > 0 THEN 255 ELSE 0

\* Faulty variant: the buffer is allocated as (W, H, 4).
ColoredOverlayTransposed(fs, mask) ==
    Image(mask.h, mask.w, [p \in Grid(mask.h, mask.w) |-> <<0, 0, 0, 0>>])

\* The rgba buffer: <<B, G, R, A>> per pixel, of the mask's shape
\* (H, W = mask.shape).
ColoredOverlay(fs, mask) ==
    Image(mask.w, mask.h, [p \in Grid(mask.w, mask.h) |->
        IF mask.px[p] > 0
          THEN <<Median(Series(fs, p, 1)), Median(Series(fs, p, 2)),
                 Median(Series(fs, p, 3)), AlphaOf(mask, p)>>
          ELSE <<0, 0, 0, AlphaOf(mask, p)>>])

----------------------------------------------------------------------------
(* extract_text_layer: the stages after stabilization *)

NoImage == [w |-> 0, h |-> 0, px |-> <<>>]

ShapeError == [type |-> "ValueError", msg |-> "all input arrays must have the same shape"]

OVERLAY_FILE == "text_rgba.png"

\* Faulty variant: the edge mask is written out for inspection.
BuildPersistentEdgesDumped ==
    /\ pc = "edges"
    /\ IF SameShape(stabilized)
         THEN LET r == build_persistent_edges(stabilized)
              IN /\ E_persist' = r.E_persist
                 /\ E_raw' = r.E_raw
                 /\ gray_stack' = r.gray_stack
                 /\ pc' = "static"
                 /\ err' = err
                 /\ files' = files \cup {"edges.png"}
         ELSE /\ Raise(ShapeError)
              /\ UNCHANGED <<E_persist, E_raw, gray_stack, files>>
    /\ UNCHANGED <<video, max_frames, stride, cap, idx, grabs, frames, stabilized, tr_log,
                   M_static, M_text, overlay, seen, outerVars>>
\* E_persist, gray_stack, mag_stack = build_persistent_edges(frames);
\* np.stack refuses frames of different shapes.
BuildPersistentEdges ==
    /\ pc = "edges"
    /\ IF SameShape(stabilized)
         THEN LET r == build_persistent_edges(stabilized)
              IN /\ E_persist' = r.E_persist
                 /\ E_raw' = r.E_raw
                 /\ gray_stack' = r.gray_stack
                 /\ pc' = "static"
                 /\ err' = err
         ELSE /\ Raise(ShapeError)
              /\ UNCHANGED <<E_persist, E_raw, gray_stack>>
    /\ UNCHANGED <<video, max_frames, stride, cap, idx, grabs, frames, stabilized, tr_log,
                   M_static, M_text, overlay, files, seen, outerVars>>

\* M_static = low_variance_static(gray_stack)
LowVarianceStatic ==
    /\ pc = "static"
    /\ M_static' = low_variance_static(gray_stack)
    /\ pc' = "gate"
    /\ UNCHANGED <<video, max_frames, stride, cap, idx, grabs, frames, stabilized, tr_log,
                   E_persist, E_raw, gray_stack, M_text, overlay, files, err, seen, outerVars>>

\* Faulty variant: bitwise_and writes its result into the candidate mask.
KeepComponentsInPlace ==
    /\ pc = "gate"
    /\ M_text' = keep_components_touching_seeds(M_static, E_persist, EDGE_TO_FILL_MAX_DIST)
    /\ M_static' = M_text'
    /\ pc' = "overlay"
    /\ UNCHANGED <<video, max_frames, stride, cap, idx, grabs, frames, stabilized, tr_log,
                   E_persist, E_raw, gray_stack, overlay, files, err, seen, outerVars>>
\* M_text = keep_components_touching_seeds(M_static, E_persist)
KeepComponents ==
    /\ pc = "gate"
    /\ M_text' = keep_components_touching_seeds(M_static, E_persist, EDGE_TO_FILL_MAX_DIST)
    /\ pc' = "overlay"
    /\ UNCHANGED <<video, max_frames, stride, cap, idx, grabs, frames, stabilized, tr_log,
                   E_persist, E_raw, gray_stack, M_static, overlay, files, err, seen, outerVars>>

\* Faulty variant: what cv2.imwrite reports is not looked at.
SaveColoredOverlayUnchecked ==
    /\ pc = "overlay"
    /\ overlay' = ColoredOverlay(stabilized, M_text)
    /\ \E ok \in BOOLEAN :
         files' = IF ok THEN files \cup {OVERLAY_FILE} ELSE files
    /\ pc' = "done"
    /\ UNCHANGED <<video, max_frames, stride, cap, idx, grabs, frames, stabilized, tr_log,
                   E_persist, E_raw, gray_stack, M_static, M_text, err, seen, outerVars>>

\* save_colored_overlay(frames, M_text, overlay_path); cv2.imwrite reports
\* whether the file was written.
SaveColoredOverlay ==
    /\ pc = "overlay"
    /\ overlay' = ColoredOverlay(stabilized, M_text)
    /\ \E ok \in BOOLEAN :
         IF ok
           THEN /\ files' = files \cup {OVERLAY_FILE}
                /\ pc' = "done"
                /\ err' = err
           ELSE /\ files' = files
                /\ Raise(WriteError)
    /\ UNCHANGED <<video, max_frames, stride, cap, idx, grabs, frames, stabilized, tr_log,
                   E_persist, E_raw, gray_stack, M_static, M_text, seen, outerVars>>

extractVars == <<video, max_frames, stride, pc, cap, idx, grabs, frames, stabilized,
                 tr_log, E_persist, E_raw, gray_stack, M_static, M_text, overlay, err, seen>>

----------------------------------------------------------------------------
(* add_text_layer (steps/add_text_layer.py) *)

NoArgs == [video_path |-> None, text_layer_path |-> None, output_path |-> None]

\* What subprocess.run can meet: the ffmpeg binary may be missing
\* (FileNotFoundError), else the process ends with an exit code.
ExitCodes == {0, 1}
FfmpegMissingError == [type |-> "FileNotFoundError", msg |-> "ffmpeg"]

\* Faulty variant: the overlay is not looked for.
TextLayerAssumed(path, fs) == TRUE

\* text_layer_path.exists()
TextLayerExists(path, fs) == path \in fs

\* The whole of add_text_layer.  A failed ffmpeg may leave a partial output
\* file behind.
AddTextLayer ==
    /\ step = "add_text"
    /\ IF ~TextLayerExists(args.text_layer_path, files)
         THEN /\ result' = args.video_path
              /\ step' = "returned"
              /\ UNCHANGED <<files, ffmpeg_log, run_err>>
         ELSE \E installed \in BOOLEAN, rc \in ExitCodes, partial \in BOOLEAN :
                IF ~installed
                  THEN /\ step' = "raised"
                       /\ run_err' = FfmpegMissingError
                       /\ UNCHANGED <<files, ffmpeg_log, result>>
                  ELSE /\ ffmpeg_log' = Append(ffmpeg_log, rc)
                       /\ files' = IF rc = 0 \/ partial
                                     THEN files \cup {args.output_path}
                                     ELSE files
                       /\ result' = IF rc = 0 THEN args.output_path ELSE args.video_path
                       /\ step' = "returned"
                       /\ run_err' = run_err
    /\ UNCHANGED <<sideVars, extractVars, run_no, first, args>>

----------------------------------------------------------------------------
(* VideoLocalizationPipeline.run (pipeline.py) *)

REASSEMBLED == "reassembled_video.mp4"
FINAL_VIDEO == "final_video.mp4"

\* What one of the steps 1 to 7 raises when it fails.
StepError == [type |-> "Exception", msg |-> "step"]

\* extract_text_layer raised inside the try block:
\* except Exception as e: logger.error(...); raise
RunExtractRaised ==
    /\ step = "extract"
    /\ pc = "failed"
    /\ step' = "raised"
    /\ run_err' = err
    /\ UNCHANGED <<sideVars, extractVars, files, run_no, first, args, result, ffmpeg_log>>

\* extract_text_layer returned: the run goes on to step 1.
RunExtractReturned ==
    /\ step = "extract"
    /\ pc = "done"
    /\ step' = "steps"
    /\ UNCHANGED <<sideVars, extractVars, files, run_no, first, args, result, ffmpeg_log, run_err>>

\* Steps 1 to 7: they end with the reassembled video and the call of
\* add_text_layer, or one of them raises and the handler re-raises.
RunSteps ==
    /\ step = "steps"
    /\ \E ok \in BOOLEAN :
         IF ok
           THEN /\ files' = files \cup {REASSEMBLED}
                /\ args' = [video_path |-> REASSEMBLED, text_layer_path |-> OVERLAY_FILE,
                            output_path |-> FINAL_VIDEO]
                /\ step' = "add_text"
                /\ run_err' = run_err
           ELSE /\ step' = "raised"
                /\ run_err' = StepError
                /\ UNCHANGED <<files, args>>
    /\ UNCHANGED <<sideVars, extractVars, run_no, first, result, ffmpeg_log>>

PipelineRun ==
    \/ RunExtractRaised
    \/ RunExtractReturned
    \/ RunSteps
    \/ AddTextLayer

----------------------------------------------------------------------------
(* The runs of extract_text_layer. *)

\* The record of a first run, before there was one.
NoFirst == [pc |-> None, tr_log |-> <<>>, stabilized |-> <<>>, M_text |-> NoImage,
            overlay |-> NoImage]

\* _estimate_transform is not running.
EstIdle ==
    /\ det = [k1 |-> 0, k2 |-> 0, matches |-> <<>>, H |-> NoHomography]
    /\ est = [pc |-> "none", good |-> <<>>, fitted |-> FALSE, value |-> NoTransform]

\* The attributes of an object that __init__ has not got to: the names that
\* are set on it, and their values.
Bare == [attrs |-> {}, max_attempts |-> 0, poll_interval |-> 0]

\* No FalAIWorker was asked for.
FalIdle ==
    /\ fal_key = TRUE
    /\ cls_instance = None
    /\ inst = Bare
    /\ created = 0
    /\ got = <<>>

\* No request is polled.
PollIdle == status_log = <<>> /\ attempt = 0 /\ poll_out = None

\* What CacheManager.load returned, before it was called.
NotLoaded == [args |-> <<>>, hit |-> FALSE, data |-> <<>>]

\* No cache file, no frame file, no video file.
CacheIdle ==
    /\ cache = <<>>
    /\ disk = {}
    /\ video_stat = "unknown"
    /\ saved = <<>>
    /\ loaded = NotLoaded

\* What a step returned or raised, before it has done either.
NoOutcome == [kind |-> "none", value |-> <<>>]

\* generate_reference_images is not running.
RefIdle ==
    /\ original_person_registry = <<>>
    /\ new_descriptions = <<>>
    /\ ref_out = NoOutcome

\* Nothing was handed to cache_manager.save; used: a cache manager and a
\* video path were given.
NothingCached == [used |-> FALSE, saved |-> FALSE, data |-> <<>>]

\* edit_frames is not running.
EditIdle ==
    /\ cleaned_video_intervals = <<>>
    /\ edit_idx = 0
    /\ edited_intervals = <<>>
    /\ edit_log = <<>>
    /\ edit_cached = NothingCached
    /\ edit_out = NoOutcome

\* The other steps and utilities of the pipeline are not running.
SideIdle == EstIdle /\ FalIdle /\ PollIdle /\ CacheIdle /\ RefIdle /\ EditIdle

\* Outside VideoLocalizationPipeline.run, first run.
OuterIdle ==
    /\ run_no = 1
    /\ first = NoFirst
    /\ step = "none"
    /\ args = NoArgs
    /\ result = None
    /\ ffmpeg_log = <<>>
    /\ run_err = NoError

NoBlock == [x0 |-> 1, x1 |-> 0, y0 |-> 1, y1 |-> 0]
NoHole == <<0, 0>>

\* The scenes of MaxW x MaxH pixels.
AllScenes ==
    [bg : {"dark", "flicker"}, fg : {"text"}, block : Rects(MaxW, MaxH) \cup {NoBlock},
     hole : {NoHole, <<2, 2>>}, holeKind : {"flicker"}]

\* A block of text in the lower right corner of moving footage.
CornerScene ==
    [bg |-> "flicker", fg |-> "text", block |-> [x0 |-> 2, x1 |-> MaxW, y0 |-> 2, y1 |-> MaxH],
     hole |-> NoHole, holeKind |-> "flicker"]

GoodStream == [openable |-> TRUE, n |-> MaxN, fault |-> [kind |-> "none", at |-> 0]]

\* Every scene, read frame by frame from a sound stream that yields
\* MIN_FRAMES frames; and one scene, read from every stream with every
\* argument.
Inputs ==
    [scene : AllScenes, stream : {GoodStream}, max_frames : {MIN_FRAMES}, stride : {1}]
      \cup [scene : {CornerScene}, stream : Streams, max_frames : 0..MaxFrames,
             stride : 0..MaxStride]

Init ==
    /\ \E in \in Inputs :
         /\ video = [w |-> MaxW, h |-> MaxH, scene |-> in.scene, stream |-> in.stream]
         /\ max_frames = in.max_frames
         /\ stride = in.stride
    /\ pc = "start"
    /\ cap = "none"
    /\ idx = 0
    /\ grabs = 0
    /\ frames = <<>>
    /\ stabilized = <<>>
    /\ tr_log = <<>>
    /\ E_persist = NoImage
    /\ E_raw = NoImage
    /\ gray_stack = <<>>
    /\ M_static = NoImage
    /\ M_text = NoImage
    /\ overlay = NoImage
    /\ files = {}
    /\ err = NoError
    /\ seen = <<>>
    /\ run_no = 1
    /\ first = NoFirst
    /\ step = "extract"
    /\ args = NoArgs
    /\ result = None
    /\ ffmpeg_log = <<>>
    /\ run_err = NoError
    /\ SideIdle

Next ==
    \/ ReadSampledFrames
    \/ StabilizeFrames
    \/ BuildPersistentEdges
    \/ LowVarianceStatic
    \/ KeepComponents
    \/ SaveColoredOverlay
    \/ PipelineRun

Spec == Init /\ [][Next]_vars

----------------------------------------------------------------------------
(* keep_components_touching_seeds on its own, for every pair of masks made  *)
(* of a rectangle or its complement (candidates) and a rectangle (seeds).   *)

RectMask(r, inside) ==
    Mask(MaxW, MaxH, [p \in Grid(MaxW, MaxH) |-> InRect(p, r) = inside])

InitGate ==
    /\ \E r \in Rects(MaxW, MaxH) \cup {NoBlock}, inside \in BOOLEAN :
         M_static = RectMask(r, inside)
    /\ \E r \in Rects(MaxW, MaxH) \cup {NoBlock} : E_persist = RectMask(r, TRUE)
    /\ E_raw = NoImage
    /\ video = [w |-> MaxW, h |-> MaxH, scene |-> CornerScene, stream |-> GoodStream]
    /\ max_frames = MIN_FRAMES
    /\ stride = 1
    /\ pc = "gate"
    /\ cap = "released"
    /\ idx = 0
    /\ grabs = 0
    /\ frames = <<>>
    /\ stabilized = <<>>
    /\ tr_log = <<>>
    /\ gray_stack = <<>>
    /\ M_text = NoImage
    /\ overlay = NoImage
    /\ files = {}
    /\ err = NoError
    /\ seen = <<>>
    /\ OuterIdle
    /\ SideIdle

SpecGate == InitGate /\ [][KeepComponents]_vars

----------------------------------------------------------------------------
(* save_colored_overlay on its own, for stacks of 1 to MaxT frames whose    *)
(* pixels run through three colours, and masks that are a rectangle of      *)
(* value 1 or 255.                                                          *)

\* Three colours <<B, G, R>> whose channels are ordered differently.
Palette == <<<<10, 200, 31>>, <<200, 11, 30>>, <<11, 10, 255>>>>

\* A frame whose column x has the colour number (c + x) % 3.
PlainFrame(c) ==
    [idx |-> 0, w |-> MaxW, h |-> MaxH,
     px |-> Tabulate([p \in Grid(MaxW, MaxH) |-> Palette[((c + p[1]) % 3) + 1]],
                     Grid(MaxW, MaxH))]

ColourRuns == UNION {[1..T -> 0..2] : T \in 1..MaxT}

\* A mask that has the value v inside r.
ValueMask(r, v) ==
    Image(MaxW, MaxH, [p \in Grid(MaxW, MaxH) |-> IF InRect(p, r) THEN v ELSE 0])

CornerRects == {r \in Rects(MaxW, MaxH) : r.x0 = 1 /\ r.y0 = 1} \cup {NoBlock}

InitOverlay ==
    /\ \E run \in ColourRuns :
         /\ stabilized = [t \in 1..Len(run) |-> PlainFrame(run[t])]
         /\ frames = stabilized
    /\ \E r \in CornerRects, v \in {1, 255} : M_text = ValueMask(r, v)
    /\ video = [w |-> MaxW, h |-> MaxH, scene |-> CornerScene, stream |-> GoodStream]
    /\ max_frames = MaxT
    /\ stride = 1
    /\ pc = "overlay"
    /\ cap = "released"
    /\ idx = 0
    /\ grabs = 0
    /\ tr_log = <<>>
    /\ E_persist = NoImage
    /\ E_raw = NoImage
    /\ gray_stack = <<>>
    /\ M_static = NoImage
    /\ overlay = NoImage
    /\ files = {}
    /\ err = NoError
    /\ seen = <<>>
    /\ OuterIdle
    /\ SideIdle

SpecOverlay == InitOverlay /\ [][SaveColoredOverlay]_vars

----------------------------------------------------------------------------
(* extract_text_layer run twice on one sampled frame stack: the stages      *)
(* after read_sampled_frames, and then the same stages again.               *)

\* The second call: every local of the first is gone, the frame stack, the
\* files and the libraries are what they were.
Rerun ==
    /\ run_no = 1
    /\ pc \in {"done", "failed"}
    /\ first' = [pc |-> pc, tr_log |-> tr_log, stabilized |-> stabilized,
                 M_text |-> M_text, overlay |-> overlay]
    /\ run_no' = 2
    /\ pc' = "stabilize"
    /\ stabilized' = <<>>
    /\ tr_log' = <<>>
    /\ E_persist' = NoImage
    /\ E_raw' = NoImage
    /\ gray_stack' = <<>>
    /\ M_static' = NoImage
    /\ M_text' = NoImage
    /\ overlay' = NoImage
    /\ err' = NoError
    /\ UNCHANGED <<video, max_frames, stride, cap, idx, grabs, frames, files, seen,
                   step, args, result, ffmpeg_log, run_err, sideVars>>

\* Scenes with a block of text along the lower edge up to the right corner,
\* or none.
TwiceScenes ==
    {sc \in AllScenes :
        \/ sc.block = NoBlock
        \/ (sc.block.x1 = MaxW /\ sc.block.y1 = MaxH /\ sc.block.y0 = 2)}

\* The stack read_sampled_frames returns for n frames of stride s.
SampledStack(v, n, s) == [i \in 1..n |-> Decode(v, (i - 1) * s)]

InitTwice ==
    /\ \E sc \in TwiceScenes, n \in MIN_FRAMES..MaxFrames :
         /\ video = [w |-> MaxW, h |-> MaxH, scene |-> sc, stream |-> GoodStream]
         /\ max_frames = n
         /\ frames = SampledStack(video, n, 1)
    /\ stride = 1
    /\ pc = "stabilize"
    /\ cap = "released"
    /\ idx = max_frames - 1
    /\ grabs = max_frames
    /\ stabilized = <<>>
    /\ tr_log = <<>>
    /\ E_persist = NoImage
    /\ E_raw = NoImage
    /\ gray_stack = <<>>
    /\ M_static = NoImage
    /\ M_text = NoImage
    /\ overlay = NoImage
    /\ files = {}
    /\ err = NoError
    /\ seen = <<>>
    /\ OuterIdle
    /\ SideIdle

NextTwice ==
    \/ StabilizeFrames
    \/ BuildPersistentEdges
    \/ LowVarianceStatic
    \/ KeepComponents
    \/ SaveColoredOverlay
    \/ Rerun

SpecTwice == InitTwice /\ [][NextTwice]_vars

----------------------------------------------------------------------------
(* low_variance_static on its own, for the grayscale stacks of the scenes   *)
(* with a constant block, dark or bright, on moving footage.                *)

StaticScenes ==
    [bg : {"flicker"}, fg : {"text", "dark"}, block : Rects(MaxW, MaxH) \cup {NoBlock},
     hole : {NoHole, <<2, 2>>}, holeKind : {"flicker"}]

\* gray_stack as build_persistent_edges makes it from a stack of frames.
GrayStack(fs) == Tabulate([t \in 1..Len(fs) |-> cvtColor(fs[t])], 1..Len(fs))

InitStatic ==
    /\ \E sc \in StaticScenes, n \in MIN_FRAMES..MaxFrames :
         /\ video = [w |-> MaxW, h |-> MaxH, scene |-> sc, stream |-> GoodStream]
         /\ max_frames = n
         /\ gray_stack = GrayStack(SampledStack(video, n, 1))
    /\ stride = 1
    /\ pc = "static"
    /\ cap = "released"
    /\ idx = 0
    /\ grabs = 0
    /\ frames = <<>>
    /\ stabilized = <<>>
    /\ tr_log = <<>>
    /\ E_persist = NoImage
    /\ E_raw = NoImage
    /\ M_static = NoImage
    /\ M_text = NoImage
    /\ overlay = NoImage
    /\ files = {}
    /\ err = NoError
    /\ seen = <<>>
    /\ OuterIdle
    /\ SideIdle

SpecStatic == InitStatic /\ [][LowVarianceStatic]_vars

----------------------------------------------------------------------------
(* add_text_layer on its own, for every choice of its three paths and every *)
(* set of files that exist when it is called.                               *)

VideoPaths == {REASSEMBLED, "input.mp4"}
LayerPaths == {OVERLAY_FILE, "other.png"}
OutputPaths == {FINAL_VIDEO, "out.mp4"}

InitAddText ==
    /\ args \in [video_path : VideoPaths, text_layer_path : LayerPaths,
                  output_path : OutputPaths]
    /\ files \in SUBSET (VideoPaths \cup LayerPaths \cup {FINAL_VIDEO})
    /\ step = "add_text"
    /\ run_no = 1
    /\ first = NoFirst
    /\ result = None
    /\ ffmpeg_log = <<>>
    /\ run_err = NoError
    /\ SideIdle
    /\ video = [w |-> MaxW, h |-> MaxH, scene |-> CornerScene, stream |-> GoodStream]
    /\ max_frames = MIN_FRAMES
    /\ stride = 1
    /\ pc = "done"
    /\ cap = "released"
    /\ idx = 0
    /\ grabs = 0
    /\ frames = <<>>
    /\ stabilized = <<>>
    /\ tr_log = <<>>
    /\ E_persist = NoImage
    /\ E_raw = NoImage
    /\ gray_stack = <<>>
    /\ M_static = NoImage
    /\ M_text = NoImage
    /\ overlay = NoImage
    /\ err = NoError
    /\ seen = <<>>

SpecAddText == InitAddText /\ [][AddTextLayer]_vars

----------------------------------------------------------------------------
(* build_persistent_edges on its own: every scene, sampled frame by frame.  *)

\* Scenes with a block of text that reaches the right edge, or none.
EdgeScenes == {sc \in AllScenes : sc.block = NoBlock \/ sc.block.x1 = MaxW}

InitEdges ==
    /\ \E sc \in EdgeScenes, n \in MIN_FRAMES..MaxFrames :
         /\ video = [w |-> MaxW, h |-> MaxH, scene |-> sc, stream |-> GoodStream]
         /\ max_frames = n
         /\ stabilized = SampledStack(video, n, 1)
    /\ stride = 1
    /\ pc = "edges"
    /\ cap = "released"
    /\ idx = 0
    /\ grabs = 0
    /\ frames = <<>>
    /\ tr_log = <<>>
    /\ E_persist = NoImage
    /\ E_raw = NoImage
    /\ gray_stack = <<>>
    /\ M_static = NoImage
    /\ M_text = NoImage
    /\ overlay = NoImage
    /\ files = {}
    /\ err = NoError
    /\ seen = <<>>
    /\ OuterIdle
    /\ SideIdle

SpecEdges == InitEdges /\ [][BuildPersistentEdges]_vars

----------------------------------------------------------------------------
(* The other steps and utilities, each on its own.                          *)

coreVars == <<extractVars, files, run_no, first, step, args, result, ffmpeg_log, run_err>>

\* extract_text_layer and the pipeline have not been started.
CoreIdle ==
    /\ video = [w |-> MaxW, h |-> MaxH, scene |-> CornerScene, stream |-> GoodStream]
    /\ max_frames = MIN_FRAMES
    /\ stride = 1
    /\ pc = "start"
    /\ cap = "none"
    /\ idx = 0
    /\ grabs = 0
    /\ frames = <<>>
    /\ stabilized = <<>>
    /\ tr_log = <<>>
    /\ E_persist = NoImage
    /\ E_raw = NoImage
    /\ gray_stack = <<>>
    /\ M_static = NoImage
    /\ M_text = NoImage
    /\ overlay = NoImage
    /\ files = {}
    /\ err = NoError
    /\ seen = <<>>
    /\ OuterIdle

----------------------------------------------------------------------------
(* _estimate_transform, step by step.  bf.knnMatch(d1, d2, k=2) delivers,   *)
(* for every keypoint of the first image, its best match m and its second   *)
(* best n; a match is the pair <<m.distance, n.distance>> of Hamming        *)
(* distances.                                                                *)

MaxTail == 2         \* matches beyond the first seven

\* Faulty variant: a match at exactly 0.75 x the second-best distance passes.
RatioTestLoose(mn) == 4 * mn[1] <= 3 * mn[2]

\* m.distance < 0.75 * n.distance
RatioTest(mn) == 4 * mn[1] < 3 * mn[2]

\* good: the matches that pass, in order.
GoodMatches(matches) == SelectSeq(matches, RatioTest)

RECURSIVE SeqsOf(_, _)
SeqsOf(S, n) ==
    IF n = 0 THEN {<<>>}
    ELSE {Append(q, x) : q \in SeqsOf(S, n - 1), x \in S}

\* Seven distinctive matches, then matches around the threshold.
ClearMatches == [i \in 1..7 |-> <<10, 40>>]
EdgeMatches == {<<29, 40>>, <<30, 40>>, <<31, 40>>, <<0, 0>>}

\* What ORB, the matcher and the fit can report: knnMatch returns one pair
\* per keypoint of the first image.
Reports ==
    UNION {[k1 : {k}, k2 : {0, 7, 8},
            matches : IF k < 7 THEN {<<>>}
                      ELSE {ClearMatches \o q : q \in SeqsOf(EdgeMatches, k - 7)},
            H : {NoHomography} \cup Homographies]
           : k \in {0} \cup (7..(7 + MaxTail))}

EstStart == [pc |-> "detect", good |-> <<>>, fitted |-> FALSE, value |-> NoTransform]

estRest == <<coreVars, falVars, pollVars, cacheVars, refVars, editVars>>

\* if d1 is None or d2 is None or len(k1) < 8 or len(k2) < 8: return None
EstCheckKeypoints ==
    /\ est.pc = "detect"
    /\ est' = IF det.k1 = 0 \/ det.k2 = 0 \/ det.k1 < MIN_KEYPOINTS \/ det.k2 < MIN_KEYPOINTS
                THEN [est EXCEPT !.pc = "returned", !.value = NoTransform]
                ELSE [est EXCEPT !.pc = "match"]
    /\ UNCHANGED <<det, estRest>>

\* the ratio test over matches; if len(good) < 8: return None
EstRatioTest ==
    /\ est.pc = "match"
    /\ LET good == GoodMatches(det.matches)
       IN est' = IF Len(good) < MIN_GOOD_MATCHES
                   THEN [est EXCEPT !.pc = "returned", !.good = good, !.value = NoTransform]
                   ELSE [est EXCEPT !.pc = "fit", !.good = good]
    /\ UNCHANGED <<det, estRest>>

\* H, mask = cv2.findHomography(dst, src, cv2.RANSAC, 3.0);
\* return ("homography", H) if H is not None else None
EstFindHomography ==
    /\ est.pc = "fit"
    /\ est' = [est EXCEPT !.pc = "returned", !.fitted = TRUE,
                          !.value = IF det.H # NoHomography
                                      THEN [mode |-> "homography", T |-> det.H]
                                      ELSE NoTransform]
    /\ UNCHANGED <<det, estRest>>

InitEstimate ==
    /\ det \in Reports
    /\ est = EstStart
    /\ CoreIdle
    /\ FalIdle /\ PollIdle /\ CacheIdle /\ RefIdle /\ EditIdle

NextEstimate == EstCheckKeypoints \/ EstRatioTest \/ EstFindHomography

SpecEstimate == InitEstimate /\ [][NextEstimate]_vars

----------------------------------------------------------------------------
(* FalAIWorker (utils/falai_worker.py): the singleton and the poll loop.    *)

MaxAttempts == 4     \* largest max_attempts
MaxCalls == 3        \* calls on FalAIWorker

PollIntervals == {1, 5}

falRest == <<coreVars, estVars, pollVars, cacheVars, refVars, editVars>>

\* __init__(self, max_attempts, poll_interval) on an object with the
\* attributes o: the attributes afterwards, or that it raises.  The class
\* attribute _initialized = False is what an object without its own reads.
FalInit(o, key, max_attempts, poll_interval) ==
    IF "_initialized" \in o.attrs THEN [raised |-> FALSE, o |-> o]
    ELSE IF ~key THEN [raised |-> TRUE, o |-> o]
    ELSE [raised |-> FALSE,
          o |-> [attrs |-> {"max_attempts", "poll_interval", "_initialized"},
                 max_attempts |-> max_attempts, poll_interval |-> poll_interval]]

\* FalAIWorker(max_attempts, poll_interval): __new__ stores the object in
\* cls._instance, then __init__ runs on it.
Construct(call, max_attempts, poll_interval) ==
    LET fresh == cls_instance = None
        o == IF fresh THEN Bare ELSE inst
        r == FalInit(o, fal_key, max_attempts, poll_interval)
    IN /\ cls_instance' = "object"
       /\ created' = IF fresh THEN created + 1 ELSE created
       /\ inst' = r.o
       /\ got' = Append(got, IF r.raised
                                THEN [call |-> call, kind |-> "ValueError", attrs |-> {}]
                                ELSE [call |-> call, kind |-> "returned",
                                      attrs |-> r.o.attrs])

FalAIWorkerCall ==
    /\ Len(got) < MaxCalls
    /\ \E m \in 1..MaxAttempts, i \in PollIntervals : Construct("FalAIWorker", m, i)
    /\ UNCHANGED <<fal_key, falRest>>

\* get_instance: if cls._instance is None: cls._instance = FalAIWorker(...);
\* return cls._instance
GetInstance ==
    /\ Len(got) < MaxCalls
    /\ IF cls_instance = None
         THEN \E m \in 1..MaxAttempts, i \in PollIntervals : Construct("get_instance", m, i)
         ELSE /\ got' = Append(got, [call |-> "get_instance", kind |-> "returned",
                                     attrs |-> inst.attrs])
              /\ UNCHANGED <<cls_instance, inst, created>>
    /\ UNCHANGED <<fal_key, falRest>>

\* The environment: FAL_KEY is set or unset between two calls.
SetEnv ==
    /\ fal_key' = ~fal_key
    /\ UNCHANGED <<cls_instance, inst, created, got, falRest>>

InitFal ==
    /\ fal_key \in BOOLEAN
    /\ cls_instance = None
    /\ inst = Bare
    /\ created = 0
    /\ got = <<>>
    /\ CoreIdle
    /\ EstIdle /\ PollIdle /\ CacheIdle /\ RefIdle /\ EditIdle

NextFal == FalAIWorkerCall \/ GetInstance \/ SetEnv

SpecFal == InitFal /\ [][NextFal]_vars

(* _poll_request on an initialised worker. *)

Statuses == {"Completed", "Failed", "InProgress", "Queued", "Other"}

\* Faulty variant: the loop goes round once more.
KeepPollingOneMore(a, max_attempts) == a <= max_attempts

\* while attempt < self.max_attempts
KeepPolling(a, max_attempts) == a < max_attempts

pollRest == <<coreVars, estVars, falVars, cacheVars, refVars, editVars>>

\* status = await fal_client.status_async(...): Completed
PollCompleted ==
    /\ poll_out = "polling"
    /\ KeepPolling(attempt, inst.max_attempts)
    /\ status_log' = Append(status_log, "Completed")
    /\ poll_out' = "returned"
    /\ UNCHANGED <<attempt, pollRest>>

\* ... Failed: raise RuntimeError
PollFailed ==
    /\ poll_out = "polling"
    /\ KeepPolling(attempt, inst.max_attempts)
    /\ status_log' = Append(status_log, "Failed")
    /\ poll_out' = "RuntimeError"
    /\ UNCHANGED <<attempt, pollRest>>

\* ... any other status: await asyncio.sleep(self.poll_interval); attempt += 1
PollPending ==
    /\ poll_out = "polling"
    /\ KeepPolling(attempt, inst.max_attempts)
    /\ \E st \in Statuses \ {"Completed", "Failed"} : status_log' = Append(status_log, st)
    /\ attempt' = attempt + 1
    /\ UNCHANGED <<poll_out, pollRest>>

\* the loop ends: raise TimeoutError
PollTimeout ==
    /\ poll_out = "polling"
    /\ ~KeepPolling(attempt, inst.max_attempts)
    /\ poll_out' = "TimeoutError"
    /\ UNCHANGED <<status_log, attempt, pollRest>>

InitPoll ==
    /\ fal_key = TRUE
    /\ cls_instance = "object"
    /\ \E m \in 0..MaxAttempts, i \in PollIntervals :
         inst = [attrs |-> {"max_attempts", "poll_interval", "_initialized"},
                 max_attempts |-> m, poll_interval |-> i]
    /\ created = 1
    /\ got = <<[call |-> "get_instance", kind |-> "returned", attrs |-> inst.attrs]>>
    /\ status_log = <<>>
    /\ attempt = 0
    /\ poll_out = "polling"
    /\ CoreIdle
    /\ EstIdle /\ CacheIdle /\ RefIdle /\ EditIdle

NextPoll == PollCompleted \/ PollFailed \/ PollPending \/ PollTimeout

SpecPoll == InitPoll /\ [][NextPoll]_vars

\* The event loop resumes the coroutine whenever the awaited status query or
\* sleep has completed, so a step that can be taken is taken.
SpecPollFair == SpecPoll /\ WF_vars(NextPoll)

----------------------------------------------------------------------------
(* generate_reference_images (steps/reference_generation.py), cache miss.   *)

MaxPeople == 2       \* people in the original registry

\* A Person: its person_id and what else describes it.
Looks == {"plain", "vivid"}
OriginalId(i) == <<"person", i>>
GeneratedId(i) == <<"new", i>>

\* The registries of n detected people.
Originals(n) == {[i \in 1..n |-> [person_id |-> OriginalId(i), clothing |-> "plain"]]}

\* What generate_new_people_descriptions can return: any number of people.
Generated ==
    UNION {{[i \in 1..n |-> [person_id |-> GeneratedId(i), clothing |-> c[i]]]
             : c \in [1..n -> Looks]} : n \in 0..(MaxPeople + 1)}

\* while len(new) < len(original): new.append(new[-1].model_copy());
\* defined for a list that is not empty.
RECURSIVE PadWithLast(_, _)
PadWithLast(new, n) ==
    IF Len(new) >= n THEN new ELSE PadWithLast(Append(new, new[Len(new)]), n)

\* new_person.person_id = original_person_registry[idx].person_id
WithOriginalIds(new, original) ==
    [i \in 1..Len(new) |-> [new[i] EXCEPT !.person_id = original[i].person_id]]

refRest == <<coreVars, estVars, falVars, pollVars, cacheVars, editVars>>

\* The whole call after the cache miss; failing is the person, if any, whose
\* image generation or download raises (0: none does).
GenerateReferenceImages ==
    /\ ref_out = NoOutcome
    /\ LET new == new_descriptions
           n == Len(original_person_registry)
       IN IF Len(new) < n /\ new = <<>>
            THEN ref_out' = [kind |-> "IndexError", value |-> <<>>]
            ELSE LET adjusted == IF Len(new) < n THEN PadWithLast(new, n)
                                 ELSE SubSeq(new, 1, n)
                 IN \E failing \in 0..Len(adjusted) :
                      ref_out' = IF failing > 0
                                   THEN [kind |-> "GenerationError", value |-> <<>>]
                                   ELSE [kind |-> "returned",
                                         value |-> WithOriginalIds(adjusted,
                                                       original_person_registry)]
    /\ UNCHANGED <<original_person_registry, new_descriptions, refRest>>

InitReference ==
    /\ \E n \in 0..MaxPeople : original_person_registry \in Originals(n)
    /\ new_descriptions \in Generated
    /\ ref_out = NoOutcome
    /\ CoreIdle
    /\ EstIdle /\ FalIdle /\ PollIdle /\ CacheIdle /\ EditIdle

SpecReference == InitReference /\ [][GenerateReferenceImages]_vars

----------------------------------------------------------------------------
(* edit_frames (steps/frame_editing.py), cache miss.                        *)

MaxIntervals == 3    \* intervals handed to edit_frames

\* The fields of schemas.VideoInterval.  The model has no configuration of
\* its own, so a keyword it does not declare is dropped by the constructor
\* and is no attribute of the object.
VideoIntervalFields ==
    {"index", "start_frame_path", "end_frame_path", "start_time", "end_time", "duration",
     "fps"}

\* A Path, as against the string json holds for it.
PathOf(name) == [path |-> name]

\* VideoInterval(**kwargs)
VideoInterval(index, start_frame_path, end_frame_path, start_time, end_time, duration, fps) ==
    [index |-> index, start_frame_path |-> start_frame_path,
     end_frame_path |-> end_frame_path, start_time |-> start_time, end_time |-> end_time,
     duration |-> duration, fps |-> fps]

\* The cleaned intervals of a video: n intervals of 2 seconds, index from 0.
CleanedIntervals(n) ==
    [i \in 1..n |-> VideoInterval(i - 1, PathOf(<<"start_cleaned", i - 1>>),
                                  PathOf(<<"end_cleaned", i - 1>>), 2 * (i - 1), 2 * i, 2, 30)]

\* model_dump(mode='json'): a Path becomes its string.
ModelDump(iv) ==
    [iv EXCEPT !.start_frame_path = iv.start_frame_path.path,
               !.end_frame_path = iv.end_frame_path.path]

\* What the editing of one interval can do: the work on the start frame
\* raises, the work on the end frame raises, or both frames are edited.
EditOutcomes == {"start_raises", "end_raises", "both_edited"}

\* Reading obj.name on an object with the given fields succeeds.
HasAttr(fields, name) == name \in fields

editRest == <<coreVars, estVars, falVars, pollVars, cacheVars, refVars>>

\* One iteration of the loop over cleaned_video_intervals.  After both
\* edits, the arguments of the new VideoInterval are evaluated, among them
\* video_interval.audio_path; whatever raises inside the try is logged and
\* the loop continues.
EditInterval ==
    /\ edit_out = NoOutcome
    /\ edit_idx \in 1..Len(cleaned_video_intervals)
    /\ LET video_interval == cleaned_video_intervals[edit_idx]
           interval_index == video_interval.index
       IN \E o \in EditOutcomes :
            /\ edit_log' = Append(edit_log, o)
            /\ edited_intervals' =
                 IF o = "both_edited" /\ HasAttr(VideoIntervalFields, "audio_path")
                   THEN Append(edited_intervals,
                               VideoInterval(interval_index,
                                             PathOf(<<"start_edited", interval_index>>),
                                             PathOf(<<"end_edited", interval_index>>),
                                             video_interval.start_time,
                                             video_interval.end_time,
                                             video_interval.duration, video_interval.fps))
                   ELSE edited_intervals
    /\ edit_idx' = edit_idx + 1
    /\ UNCHANGED <<cleaned_video_intervals, edit_cached, edit_out, editRest>>

\* After the loop: cache_manager.save("edit_frames", ..., cache_data), which
\* swallows its own errors; return edited_intervals.
EditReturn ==
    /\ edit_out = NoOutcome
    /\ edit_idx = Len(cleaned_video_intervals) + 1
    /\ IF edit_cached.used
         THEN \E ok \in BOOLEAN :
                edit_cached' = [used |-> TRUE, saved |-> ok,
                                data |-> [i \in 1..Len(edited_intervals) |->
                                            ModelDump(edited_intervals[i])]]
         ELSE edit_cached' = edit_cached
    /\ edit_out' = [kind |-> "returned", value |-> edited_intervals]
    /\ UNCHANGED <<cleaned_video_intervals, edit_idx, edited_intervals, edit_log, editRest>>

InitEdit ==
    /\ \E n \in 0..MaxIntervals : cleaned_video_intervals = CleanedIntervals(n)
    /\ edit_idx = 1
    /\ edited_intervals = <<>>
    /\ edit_log = <<>>
    /\ \E used \in BOOLEAN : edit_cached = [NothingCached EXCEPT !.used = used]
    /\ edit_out = NoOutcome
    /\ CoreIdle
    /\ EstIdle /\ FalIdle /\ PollIdle /\ CacheIdle /\ RefIdle

NextEdit == EditInterval \/ EditReturn

SpecEdit == InitEdit /\ [][NextEdit]_vars

----------------------------------------------------------------------------
(* CacheManager (utils/cache_manager.py).  The steps save lists of flat     *)
(* objects, model_dump(mode='json') of their results: members are strings   *)
(* and numbers, which json.dump and json.load give back as they were.       *)

MaxSaves == 2        \* cache entries with different arguments

Str(s) == [type |-> "str", s |-> s, n |-> 0]
Num(n) == [type |-> "num", s |-> "", n |-> n]

FrameFiles == {"f1.jpg", "f2.jpg"}

StepNames == {"edit", "edit_frames"}
VIDEO == "in.mp4"
VideoStats == {"unknown", "1.0_10"}
ParamStrs == {"{}", "{\"lang\": \"en\"}"}

\* The lists that are saved: an interval that names one frame file under a
\* key ending in _path and another under a key that does not, and two
\* intervals that name both files under such keys.
DataSaved ==
    {<<[index |-> Num(0), start_frame_path |-> Str("f1.jpg"), label |-> Str("f2.jpg")]>>,
     <<[index |-> Num(0), start_frame_path |-> Str("f1.jpg"), label |-> Str("first")],
       [index |-> Num(1), key_frame |-> Str("f2.jpg"), label |-> Str("second")]>>}

\* key.endswith(('_frame', '_path', 'frame_path')), for the keys in use.
EndsWithSuffix(key) == key \in {"start_frame_path", "end_frame_path", "key_frame"}

\* step_name.startswith(prefix + "_"), for the step names in use.
StartsWithStep(step_name, prefix) == step_name = "edit_frames" /\ prefix = "edit"

\* Faulty variant: the parameters are left out of the key.
_generate_cache_key_unparametrised(step_name, video_path, stat, param_str) ==
    <<"md5", step_name, video_path, stat>>

\* md5 of f"{step_name}_{video_path}_{video_hash}_{param_str}", taken to be
\* free of collisions; stat is the video file's mtime and size, or "unknown".
_generate_cache_key(step_name, video_path, stat, param_str) ==
    <<"md5", step_name, video_path, stat, param_str>>

\* cache_dir / f"{step_name}_{cache_key}.json"
get_cache_path(step_name, video_path, stat, param_str) ==
    <<step_name, _generate_cache_key(step_name, video_path, stat, param_str)>>

\* The referenced files of data that are checked all exist.
ReferencedExist(data, files_there) ==
    \A i \in 1..Len(data) : \A key \in DOMAIN data[i] :
        (data[i][key].type = "str" /\ EndsWithSuffix(key)) => data[i][key].s \in files_there

cacheRest == <<coreVars, estVars, falVars, pollVars, refVars, editVars>>

\* save(step_name, video_path, data, **params)
CacheSave ==
    /\ \E step_name \in StepNames, param_str \in ParamStrs, data \in DataSaved :
         LET a == <<step_name, VIDEO, video_stat, param_str>>
             cache_path == get_cache_path(step_name, VIDEO, video_stat, param_str)
         IN /\ a \in DOMAIN saved \/ Cardinality(DOMAIN saved) < MaxSaves
            /\ cache' = (cache_path :> data) @@ cache
            /\ saved' = (a :> data) @@ saved
    /\ UNCHANGED <<disk, video_stat, loaded, cacheRest>>

\* load(step_name, video_path, **params)
CacheLoad ==
    /\ \E step_name \in StepNames, param_str \in ParamStrs :
         LET a == <<step_name, VIDEO, video_stat, param_str>>
             cache_path == get_cache_path(step_name, VIDEO, video_stat, param_str)
         IN loaded' =
              IF cache_path \notin DOMAIN cache THEN [args |-> a, hit |-> FALSE, data |-> <<>>]
              ELSE IF ~ReferencedExist(cache[cache_path], disk)
                     THEN [args |-> a, hit |-> FALSE, data |-> <<>>]
              ELSE [args |-> a, hit |-> TRUE, data |-> cache[cache_path]]
    /\ UNCHANGED <<cache, disk, video_stat, saved, cacheRest>>

\* The function f without the arguments in D.
Without(f, D) == [x \in DOMAIN f \ D |-> f[x]]

\* clear(step_name): every file matching f"{step_name}_*.json", or *.json
\* without a step name ("" here), is unlinked.
CacheClear ==
    /\ \E step_name \in StepNames \cup {""} :
         LET Matches(s) == step_name = "" \/ s = step_name \/ StartsWithStep(s, step_name)
         IN /\ cache' = Without(cache, {p \in DOMAIN cache : Matches(p[1])})
            /\ saved' = Without(saved, {a \in DOMAIN saved : Matches(a[1])})
    /\ UNCHANGED <<disk, video_stat, loaded, cacheRest>>

\* A frame file is deleted.
DeleteFile ==
    /\ \E f \in disk : disk' = disk \ {f}
    /\ UNCHANGED <<cache, video_stat, saved, loaded, cacheRest>>

\* The video file is removed or written: its mtime and size change.
TouchVideo ==
    /\ \E st \in VideoStats \ {video_stat} : video_stat' = st
    /\ UNCHANGED <<cache, disk, saved, loaded, cacheRest>>

InitCache ==
    /\ cache = <<>>
    /\ disk = FrameFiles
    /\ video_stat = "1.0_10"
    /\ saved = <<>>
    /\ loaded = NotLoaded
    /\ CoreIdle
    /\ EstIdle /\ FalIdle /\ PollIdle /\ RefIdle /\ EditIdle

NextCache == CacheSave \/ CacheLoad \/ CacheClear \/ DeleteFile \/ TouchVideo

SpecCache == InitCache /\ [][NextCache]_vars

----------------------------------------------------------------------------
(* extract_text_layer alone, on one scene read from every stream with every *)
(* argument.                                                                *)

InitRun ==
    /\ \E st \in Streams, n \in 0..MaxFrames, s \in 0..MaxStride :
         /\ video = [w |-> MaxW, h |-> MaxH, scene |-> CornerScene, stream |-> st]
         /\ max_frames = n
         /\ stride = s
    /\ pc = "start"
    /\ cap = "none"
    /\ idx = 0
    /\ grabs = 0
    /\ frames = <<>>
    /\ stabilized = <<>>
    /\ tr_log = <<>>
    /\ E_persist = NoImage
    /\ E_raw = NoImage
    /\ gray_stack = <<>>
    /\ M_static = NoImage
    /\ M_text = NoImage
    /\ overlay = NoImage
    /\ files = {}
    /\ err = NoError
    /\ seen = <<>>
    /\ run_no = 1
    /\ first = NoFirst
    /\ step = "extract"
    /\ args = NoArgs
    /\ result = None
    /\ ffmpeg_log = <<>>
    /\ run_err = NoError
    /\ SideIdle

NextRun ==
    \/ ReadSampledFrames
    \/ StabilizeFrames
    \/ BuildPersistentEdges
    \/ LowVarianceStatic
    \/ KeepComponents
    \/ SaveColoredOverlay

SpecRun == InitRun /\ [][NextRun]_vars

----------------------------------------------------------------------------
(* Notions the properties are stated in. *)

SetPixels(m) == {p \in DOMAIN m.px : m.px[p] > 0}

Adjacent(p, q) == Abs(p[1] - q[1]) + Abs(p[2] - q[2]) = 1

\* The pixels of mask m connected to those of S through set pixels that
\* share a side; a component under 8-connectivity is at least as large.
RECURSIVE Grow(_, _)
Grow(m, S) ==
    LET more == {q \in SetPixels(m) \ S : \E p \in S : Adjacent(p, q)}
    IN IF more = {} THEN S ELSE Grow(m, S \cup more)

ComponentOf(m, p) == Grow(m, {p})

\* Control is inside read_sampled_frames.
Sampling == pc \in {"start", "grab", "release"}

\* keep_components_touching_seeds has returned.
Gated == M_text # NoImage

\* stabilize_frames has returned.
Stabilized == pc \in {"edges", "static", "gate", "overlay", "done"}

NoLaterStage ==
    /\ stabilized = <<>>
    /\ gray_stack = <<>>
    /\ E_persist = NoImage
    /\ M_static = NoImage
    /\ M_text = NoImage
    /\ overlay = NoImage
    /\ files = {}

SoundStream == video.stream.openable /\ video.stream.fault.kind = "none"

Ceil(a, b) == (a + b - 1) \div b
Min(a, b) == IF a < b THEN a ELSE b

\* The values a frame's pixels take.
Values(f) == {f.px[p] : p \in DOMAIN f.px}

\* The Sobel magnitudes of the grayscale stack, frame by frame.
MagsOf(gs) == Tabulate([t \in 1..Len(gs) |-> sobel_mag_u8(gs[t])], 1..Len(gs))

\* build_persistent_edges has returned.
EdgesBuilt == E_raw # NoImage

\* Per pixel of a stack of magnitudes: in how many frames it is an edge,
\* and the variance of its magnitude (times T * T), with its extremes.
EdgeStats(ms) ==
    LET G == DOMAIN ms[1].px
        v == Tabulate([p \in G |-> VarT2(ms, p)], G)
    IN [T |-> Len(ms),
        c |-> Tabulate([p \in G |-> EdgeCount(ms, p)], G),
        v |-> v,
        vmin |-> MinOf({v[p] : p \in G}),
        vmax |-> MaxOf({v[p] : p \in G})]

\* Pixel p is an edge often enough; its stability score is high enough.
Frequent(st, p) == FrequentEnough(st.c[p], st.T)
Stable(st, p) == StableEnough(st.c[p], st.T, st.v[p], st.vmin, st.vmax)

\* _estimate_transform has returned.
EstReturned == est.pc = "returned"

\* The matches whose best distance is strictly below 0.75 x the second best.
Accepted(matches) ==
    {i \in 1..Len(matches) : 100 * matches[i][1] < 75 * matches[i][2]}

\* Sampling, stabilisation, edge analysis, static analysis and gating have
\* all completed.
StagesCompleted ==
    /\ Len(frames) >= MIN_FRAMES
    /\ Len(stabilized) = Len(frames)
    /\ E_persist # NoImage
    /\ Len(gray_stack) = Len(frames)
    /\ M_static # NoImage
    /\ M_text # NoImage

\* The statuses that end the polling.
Final == {"Completed", "Failed"}

\* All queries but the last were neither Completed nor Failed.
PendingBeforeLast ==
    \A i \in 1..(Len(status_log) - 1) : status_log[i] \notin Final

LastStatus == IF status_log = <<>> THEN "none" ELSE status_log[Len(status_log)]

\* The intervals of edit_frames whose two frames were both edited, in order.
BothEdited == SelectSeq([i \in 1..Len(edit_log) |-> i], LAMBDA i : edit_log[i] = "both_edited")

\* Interval b is interval a with edited frames in place of the cleaned ones.
EditedFrom(b, a) ==
    /\ b.index = a.index
    /\ b.start_time = a.start_time
    /\ b.end_time = a.end_time
    /\ b.duration = a.duration
    /\ b.fps = a.fps
    /\ b.start_frame_path = PathOf(<<"start_edited", a.index>>)
    /\ b.end_frame_path = PathOf(<<"end_edited", a.index>>)

\* The files named by string members of data whose key ends in _frame or
\* _path.
FilesNamed(data) ==
    UNION {{data[i][key].s : key \in {k \in DOMAIN data[i] :
                                        /\ data[i][k].type = "str"
                                        /\ k \in {"start_frame_path", "end_frame_path",
                                                  "key_frame"}}}
           : i \in 1..Len(data)}

----------------------------------------------------------------------------
(* Properties. *)

\* C1: the final mask M_text holds no connected component of more than
\* MAX_COMPONENT_AREA_FRAC x (width x height) pixels.
C1_NoOversizedComponent ==
    Gated =>
        \A p \in SetPixels(M_text) :
            100 * Cardinality(ComponentOf(M_text, p))
                <= MAX_COMPONENT_AREA_PERCENT * M_text.w * M_text.h

\* C2: every pixel set in the final mask M_text has a temporal standard
\* deviation of its grayscale intensity, over the stabilized stack, of at
\* most GRAY_STD_THR.
C2_MaskedPixelsAreStatic ==
    Gated => \A p \in SetPixels(M_text) : IsStatic(gray_stack, p)

\* C3: every pixel set in the mask keep_components_touching_seeds returns is
\* set in the candidates mask it was given.
C3_FinalSubsetOfStatic ==
    Gated => SetPixels(M_text) \subseteq SetPixels(M_static)

\* C3 witness: the gate has kept some candidate pixels and dropped others.
C3_Witness ==
    /\ Gated
    /\ SetPixels(M_text) # {}
    /\ SetPixels(M_text) # SetPixels(M_static)

\* The sampling loop has ended with fewer than 3 frames collected.
FewFramesSampled == cap = "released" /\ Len(frames) < 3

C5_OpenFailure ==
    (~video.stream.openable /\ pc # "start") =>
        /\ pc = "failed"
        /\ err = OpenError
        /\ grabs = 0
        /\ frames = <<>>
        /\ NoLaterStage

\* C5 witness: a run on a source that cannot be opened has failed.
C5_Witness ==
    /\ ~video.stream.openable
    /\ pc = "failed"
    /\ video.stream.n > 0

\* The frames kept so far are those with decode indices 0, s, 2s, ...
EveryStrideth ==
    \A i \in 1..Len(frames) : frames[i] = Decode(video, (i - 1) * stride)

C7_HandleReleased ==
    ~Sampling => cap # "open"

\* C8: a frame whose transform estimation failed is passed through
\* unchanged, stabilization raises nothing, and the frames after it are
\* processed all the same.
C8_FailedFramesPassThrough ==
    /\ \A i \in 2..Len(stabilized) : tr_log[i] = NoTransform => stabilized[i] = frames[i]
    /\ pc = "stabilize" => err = NoError
    /\ Stabilized => Len(stabilized) = Len(frames)
    /\ (pc = "failed" /\ stabilized # <<>>) => Len(stabilized) = Len(frames)

\* C8 witness: estimation failed for frame 1, and frame 2 was then aligned.
C8_Witness ==
    /\ Stabilized
    /\ tr_log[2] = NoTransform
    /\ tr_log[3] # NoTransform
    /\ stabilized[2] = frames[2]
    /\ stabilized[3] # frames[3]

\* C9: stabilize_frames returns a stack of the input's length whose first
\* frame is the input's first frame and whose i-th frame is made of the i-th
\* input frame alone, with the reference's dimensions, in sampling order.
C9_StackPreserved ==
    Stabilized =>
        /\ Len(stabilized) = Len(frames)
        /\ stabilized[1] = frames[1]
        /\ \A i \in 2..Len(stabilized) :
              /\ stabilized[i].idx = frames[i].idx
              /\ stabilized[i].w = frames[1].w
              /\ stabilized[i].h = frames[1].h
              /\ DOMAIN stabilized[i].px = DOMAIN frames[1].px
              /\ Values(stabilized[i]) \subseteq Values(frames[i])

\* C9 witness: a stack of four frames, some warped and some passed through.
C9_Witness ==
    /\ Stabilized
    /\ Len(stabilized) = 4
    /\ stabilized[2] # frames[2]
    /\ stabilized[3] = frames[3]
    /\ stabilized[4] # frames[4]

\* C10: the final mask and the overlay have the width and height of the
\* reference frame, whichever frames were warped; no stage fails on frames
\* of different shapes.
C10_DimensionsOfReference ==
    /\ Gated => (M_text.w = frames[1].w /\ M_text.h = frames[1].h)
    /\ overlay # NoImage =>
          /\ overlay.w = frames[1].w
          /\ overlay.h = frames[1].h
          /\ DOMAIN overlay.px = DOMAIN frames[1].px
    /\ err # ShapeError

\* C10 witness: the overlay was written for a stack with a warped and a
\* passed-through frame.
C10_Witness ==
    /\ pc = "done"
    /\ OVERLAY_FILE \in files
    /\ tr_log[2] # NoTransform
    /\ tr_log[3] = NoTransform
    /\ overlay.w = MaxW
    /\ overlay.h = MaxH

\* The middle values of a series: the least value with at least half of the
\* series at or below it, the greatest with at least half at or above it.
\* Their mean is the median, for odd and for even lengths.
LowerMiddle(s) ==
    MinOf({s[i] : i \in {j \in 1..Len(s) :
        2 * Cardinality({k \in 1..Len(s) : s[k] <= s[j]}) >= Len(s)}})

UpperMiddle(s) ==
    MaxOf({s[i] : i \in {j \in 1..Len(s) :
        2 * Cardinality({k \in 1..Len(s) : s[k] >= s[j]}) >= Len(s)}})

\* save_colored_overlay has built its buffer.
OverlayBuilt == overlay # NoImage

\* C11: in the overlay built by save_colored_overlay the alpha channel of a
\* pixel is 255 if the pixel is set in the mask and 0 if it is not; no other
\* alpha value occurs.
C11_AlphaBinary ==
    OverlayBuilt =>
        \A p \in DOMAIN overlay.px :
            overlay.px[p][4] = IF p \in SetPixels(M_text) THEN 255 ELSE 0

\* C11 witness: an overlay with opaque and transparent pixels, built from a
\* mask whose set pixels have the value 1.
C11_Witness ==
    /\ OverlayBuilt
    /\ \E p, q \in DOMAIN overlay.px :
         /\ M_text.px[p] = 1
         /\ overlay.px[p][4] = 255
         /\ overlay.px[q][4] = 0

\* C12 as stated: every colour channel of a masked pixel of the overlay is
\* the median of that channel of the pixel over all frames of the stack,
\* for odd and even frame counts; an unmasked pixel is 0 in all three.
C12_MedianColour ==
    OverlayBuilt =>
        \A p \in DOMAIN overlay.px, c \in 1..3 :
            IF p \in SetPixels(M_text)
              THEN 2 * overlay.px[p][c] =
                     LowerMiddle(Series(stabilized, p, c)) + UpperMiddle(Series(stabilized, p, c))
              ELSE overlay.px[p][c] = 0

\* C12 amended: the channel is the median rounded down to a whole number
\* (for an even frame count, the mean of the two middle values less its
\* fraction); an unmasked pixel is 0 in all three.
C12_MedianColourTruncated ==
    OverlayBuilt =>
        \A p \in DOMAIN overlay.px, c \in 1..3 :
            IF p \in SetPixels(M_text)
              THEN overlay.px[p][c] =
                     (LowerMiddle(Series(stabilized, p, c))
                        + UpperMiddle(Series(stabilized, p, c))) \div 2
              ELSE overlay.px[p][c] = 0

\* C12 witness: an overlay over four frames with a masked pixel whose two
\* middle values are 10 and 11, and an unmasked pixel.
C12_Witness ==
    /\ OverlayBuilt
    /\ Len(stabilized) = 4
    /\ \E p \in SetPixels(M_text) :
         /\ LowerMiddle(Series(stabilized, p, 1)) = 10
         /\ UpperMiddle(Series(stabilized, p, 1)) = 11
         /\ overlay.px[p][1] = 10
    /\ \E q \in DOMAIN overlay.px : q \notin SetPixels(M_text)

\* C13 (as stated): when the write of the overlay fails at the end of the
\* extraction, VideoLocalizationPipeline.run does not end with that error:
\* it goes on with the remaining steps and, if those succeed, returns the
\* video without overlay.
C13_RunSurvivesWriteFailure ==
    err = WriteError =>
        /\ ~(step = "raised" /\ run_err = WriteError)
        /\ step = "returned" => result = REASSEMBLED

\* C14: if the image write reports failure, save_colored_overlay raises and
\* the error leaves extract_text_layer (and is the error the pipeline run
\* ends with); extract_text_layer never returns normally without the overlay
\* file having been written.
C14_WriteFailureSurfaces ==
    /\ (OverlayBuilt /\ OVERLAY_FILE \notin files) => (pc = "failed" /\ err = WriteError)
    /\ pc = "done" => OVERLAY_FILE \in files
    /\ (err = WriteError /\ step # "extract") => (step = "raised" /\ run_err = WriteError)

\* C14 witness: the overlay of a non-empty mask was built, the write failed
\* and the error has left extract_text_layer.
C14_Witness ==
    /\ OverlayBuilt
    /\ SetPixels(M_text) # {}
    /\ OVERLAY_FILE \notin files
    /\ pc = "failed"
    /\ err = WriteError

\* The step has run an ffmpeg process, which ended with the exit code rc.
FfmpegEnded(before, after, rc) ==
    Len(after) = Len(before) + 1 /\ after[Len(after)] = rc

\* C15: add_text_layer, called when the overlay file does not exist, returns
\* the input video path, runs no ffmpeg and creates no file; when ffmpeg ends
\* with a non-zero code it returns the input video path too; it returns
\* output_path only when the overlay exists and ffmpeg ended with 0; it
\* raises only when the overlay exists.
C15_AddTextLayerOutcome ==
    [][step = "add_text" =>
         /\ args.text_layer_path \notin files =>
               /\ step' = "returned"
               /\ result' = args.video_path
               /\ ffmpeg_log' = ffmpeg_log
               /\ files' = files
         /\ (\E rc \in ExitCodes \ {0} : FfmpegEnded(ffmpeg_log, ffmpeg_log', rc)) =>
               (step' = "returned" /\ result' = args.video_path)
         /\ result' = args.output_path =>
               /\ args.text_layer_path \in files
               /\ FfmpegEnded(ffmpeg_log, ffmpeg_log', 0)
         /\ step' = "raised" => args.text_layer_path \in files
         /\ step' \in {"returned", "raised"}]_vars

\* C15 witness: add_text_layer has returned the input video, there being no
\* overlay file; no ffmpeg was run and no output file exists.
C15_Witness ==
    /\ step = "returned"
    /\ result = args.video_path
    /\ args.text_layer_path \notin files
    /\ args.output_path \notin files
    /\ ffmpeg_log = <<>>

\* s is an initial part of t.
IsPrefix(s, t) == Len(s) <= Len(t) /\ \A i \in 1..Len(s) : s[i] = t[i]

AllBlack ==
    \A i \in 1..Len(frames) : \A p \in DOMAIN frames[i].px : frames[i].px[p] = <<0, 0, 0>>

\* C17: for an all-black video of exactly 3 sampled frames, the transform
\* estimation fails for frames 1 and 2 and both are passed through
\* unchanged; no later stage raises (the write of the file apart, which is
\* the file system's to refuse); the final mask is produced, empty, and
\* text_rgba.png is written.
C17_AllBlackVideo ==
    (AllBlack /\ Len(frames) = 3 /\ ~Sampling) =>
        /\ \A i \in 2..Len(tr_log) : tr_log[i] = NoTransform /\ stabilized[i] = frames[i]
        /\ pc = "failed" => (err = WriteError /\ OverlayBuilt)
        /\ Gated => (SetPixels(M_text) = {} /\ M_text.w = MaxW /\ M_text.h = MaxH)
        /\ pc = "done" => (Len(tr_log) = 3 /\ Gated /\ OVERLAY_FILE \in files)

\* C17 witness: the run on an all-black video of 3 frames is done.
C17_Witness ==
    /\ AllBlack
    /\ Len(frames) = 3
    /\ pc = "done"
    /\ tr_log = <<NoTransform, NoTransform, NoTransform>>
    /\ SetPixels(M_text) = {}
    /\ OVERLAY_FILE \in files

PixelsOf(r) == {p \in Grid(MaxW, MaxH) : InRect(p, r)}

\* The pixels of a stack that have the same intensity in every frame, and
\* those with a temporal standard deviation of at most GRAY_STD_THR.
ConstantPixels(gs) ==
    {p \in DOMAIN gs[1].px : \A t \in 1..Len(gs) : gs[t].px[p] = gs[1].px[p]}

StaticPixels(gs) == {p \in DOMAIN gs[1].px : IsStatic(gs, p)}

\* The block r is constant, every pixel outside it is above the threshold.
IsBlockStack(r, const, static) == PixelsOf(r) \subseteq const /\ static \subseteq PixelsOf(r)

\* No side of r is exactly one pixel away from the border of the frame.
ClearOfBorder(r) ==
    /\ r.x0 # 2
    /\ r.y0 # 2
    /\ r.x1 # MaxW - 1
    /\ r.y1 # MaxH - 1

RECURSIVE Grow8(_, _)
Grow8(m, S) ==
    LET more == {q \in SetPixels(m) \ S :
                    \E p \in S : Abs(p[1] - q[1]) <= 1 /\ Abs(p[2] - q[2]) <= 1}
    IN IF more = {} THEN S ELSE Grow8(m, S \cup more)

\* C19 (as stated): the final mask of extract_text_layer holds no connected
\* component of fewer than MIN_COMPONENT_AREA pixels.
C19_NoSmallComponent ==
    Gated =>
        \A p \in SetPixels(M_text) : Cardinality(Grow8(M_text, {p})) >= MIN_COMPONENT_AREA

\* The square of the distance between two pixels.
DistSq(p, q) == (p[1] - q[1]) * (p[1] - q[1]) + (p[2] - q[2]) * (p[2] - q[2])

\* Some set pixel of seeds lies within d pixels of p.
WithinOfSeed(seeds, p, d) == \E q \in SetPixels(seeds) : DistSq(p, q) <= d * d

\* C20: a pixel is set in the mask keep_components_touching_seeds returns if
\* and only if it is set in the candidate (static) mask and lies within
\* EDGE_TO_FILL_MAX_DIST pixels of the nearest seed (persistent-edge) pixel.
C20_DistanceGate ==
    Gated =>
        \A p \in DOMAIN M_text.px :
            M_text.px[p] > 0 <=>
                (M_static.px[p] > 0 /\ WithinOfSeed(E_persist, p, EDGE_TO_FILL_MAX_DIST))

\* C20 witness: the gate has kept a candidate pixel two steps diagonally
\* from the nearest seed and one 3 pixels from it, and has dropped a
\* candidate pixel 4 pixels from it.
C20_Witness ==
    /\ Gated
    /\ \E p \in SetPixels(M_text) :
         MinOf({DistSq(p, q) : q \in SetPixels(E_persist)}) = 8
    /\ \E p \in SetPixels(M_text) :
         MinOf({DistSq(p, q) : q \in SetPixels(E_persist)}) = 9
    /\ \E p \in SetPixels(M_static) \ SetPixels(M_text) :
         MinOf({DistSq(p, q) : q \in SetPixels(E_persist)}) = 16

\* C21: before the morphological clean-up, build_persistent_edges marks a
\* pixel exactly when its edge frequency Q is at least PERSIST_QUANTILE and
\* its stability Q x (1 - normalised variance) is at least SCORE_MIN; a pixel
\* that is an edge in fewer than PERSIST_QUANTILE of the frames is not marked.
C21_RawEdgeRule ==
    EdgesBuilt =>
      LET st == EdgeStats(MagsOf(gray_stack))
      IN \A p \in DOMAIN E_raw.px :
           /\ (E_raw.px[p] > 0) <=> (Frequent(st, p) /\ Stable(st, p))
           /\ 100 * st.c[p] < 65 * st.T => E_raw.px[p] = 0

\* A marked pixel, a pixel that is an edge too rarely, and a pixel that is
\* an edge often enough but with too unsteady a magnitude.
C21_Witness ==
    /\ EdgesBuilt
    /\ LET st == EdgeStats(MagsOf(gray_stack))
       IN /\ \E p \in DOMAIN E_raw.px : E_raw.px[p] > 0
          /\ \E p \in DOMAIN E_raw.px :
               0 < st.c[p] /\ ~Frequent(st, p) /\ Stable(st, p)
          /\ \E p \in DOMAIN E_raw.px : Frequent(st, p) /\ ~Stable(st, p)

\* C22: _estimate_transform returns a transform only if at least 8 matches
\* passed the ratio test, a match passing exactly when its best distance is
\* strictly below 0.75 x the second-best distance; with fewer than 8 accepted
\* matches, or fewer than 8 keypoints in either frame, it returns None and no
\* homography is fitted.  The value is the one the frame loop works with.
C22_RatioTestGate ==
    EstReturned =>
      LET n == Cardinality(Accepted(det.matches))
          few == det.k1 < 8 \/ det.k2 < 8
      IN /\ est.value # NoTransform => n >= 8 /\ ~few
         /\ ~few => Len(est.good) = n
         /\ (n < 8 \/ few) => est.value = NoTransform /\ ~est.fitted
         /\ est.value = _estimate_transform([k1 |-> det.k1, k2 |-> det.k2, good |-> n,
                                             H |-> det.H])

\* Nine matches, one of them at exactly 0.75 x the second-best distance:
\* eight are accepted and the homography is fitted and returned.
C22_Witness ==
    /\ EstReturned
    /\ Len(det.matches) = 9
    /\ \E i \in 1..9 : 4 * det.matches[i][1] = 3 * det.matches[i][2] /\ det.matches[i][2] > 0
    /\ Cardinality(Accepted(det.matches)) = 8
    /\ est.fitted
    /\ est.value # NoTransform

\* C23: during a run of extract_text_layer the only file written is
\* text_rgba.png, and it is written only after sampling, stabilisation, edge
\* analysis, static analysis and gating have all completed; a run that has
\* failed or stands at an earlier stage boundary has written no file.
C23_OnlyFinalWrite ==
    /\ [](step = "extract" /\ pc # "done" => files = {})
    /\ [][step = "extract" /\ files' # files =>
             /\ files' = files \cup {OVERLAY_FILE}
             /\ pc = "overlay" /\ pc' = "done"
             /\ StagesCompleted]_vars

\* The overlay file has been written, by a run that went through every stage.
C23_Witness ==
    /\ step = "extract"
    /\ pc = "done"
    /\ files = {OVERLAY_FILE}
    /\ StagesCompleted
    /\ SetPixels(M_text) # {}

\* C24: no stage modifies what it is given: stabilize_frames leaves the list
\* of sampled frames and every frame in it as they are, build_persistent_edges
\* and save_colored_overlay leave the stabilized stack as it is,
\* low_variance_static the grayscale stack, keep_components_touching_seeds
\* the static mask and the edge mask, save_colored_overlay the text mask.
C24_InputsUntouched ==
    [][/\ pc = "stabilize" => frames' = frames
       /\ pc \in {"edges", "overlay"} => stabilized' = stabilized
       /\ pc = "static" => gray_stack' = gray_stack
       /\ pc = "gate" => M_static' = M_static /\ E_persist' = E_persist
       /\ pc = "overlay" => M_text' = M_text]_vars

\* A finished run whose stabilized stack differs from the sampled frames and
\* whose text mask is neither empty nor the edge mask, with the sampled
\* frames still as they were decoded and the static mask still what
\* low_variance_static made of the grayscale stack.
C24_Witness ==
    /\ pc = "done"
    /\ stabilized # frames
    /\ SetPixels(M_text) # {}
    /\ SetPixels(M_text) # SetPixels(E_persist)
    /\ M_static = low_variance_static(gray_stack)
    /\ \A i \in 1..Len(frames) : frames[i] = Decode(video, (i - 1) * stride)

\* C28: with an empty persistent-edge mask, keep_components_touching_seeds
\* returns an empty mask whatever the static mask is, an all-static frame
\* included.
C28_NoSeedNoText ==
    (Gated /\ SetPixels(E_persist) = {}) => SetPixels(M_text) = {}

\* An all-static frame gated with an empty edge mask.
C28_Witness ==
    /\ Gated
    /\ SetPixels(E_persist) = {}
    /\ SetPixels(M_static) = Grid(MaxW, MaxH)
    /\ SetPixels(M_text) = {}

\* C25: _poll_request queries the status at most max_attempts times; it
\* returns exactly when a query reports Completed, raises RuntimeError as
\* soon as a query reports Failed, without another query, and raises
\* TimeoutError after max_attempts queries that were neither; whatever the
\* statuses are, it ends.
C25_PollOutcome ==
    /\ [](/\ Len(status_log) <= inst.max_attempts
          /\ PendingBeforeLast
          /\ poll_out = "returned" <=> LastStatus = "Completed"
          /\ poll_out = "RuntimeError" <=> LastStatus = "Failed"
          /\ poll_out = "TimeoutError" =>
                Len(status_log) = inst.max_attempts /\ LastStatus \notin Final
          /\ (Len(status_log) = inst.max_attempts /\ LastStatus \notin Final) =>
                poll_out \in {"polling", "TimeoutError"})
    /\ <>(poll_out # "polling")

\* max_attempts queries, none of them Completed or Failed, then TimeoutError.
C25_Witness ==
    /\ poll_out = "TimeoutError"
    /\ inst.max_attempts = MaxAttempts
    /\ Len(status_log) = MaxAttempts
    /\ \E i, j \in 1..MaxAttempts : status_log[i] # status_log[j]

\* C29 (as stated): after any sequence of FalAIWorker() and get_instance()
\* calls, also while FAL_KEY is unset, get_instance returns only an instance
\* on which max_attempts and poll_interval are set; at most one instance
\* exists.
C29_GetInstanceInitialised ==
    /\ created <= 1
    /\ \A k \in 1..Len(got) :
         (got[k].call = "get_instance" /\ got[k].kind = "returned")
            => {"max_attempts", "poll_interval"} \subseteq got[k].attrs

\* C27 (as stated): on a cache miss, whatever list of new people the
\* description generator returns (shorter, longer, of equal length, empty),
\* generate_reference_images either fails on an image-generation error or
\* returns a registry as long as original_person_registry whose element i
\* carries the person_id of original element i.
C27_SameCountOrGenerationError ==
    ref_out # NoOutcome =>
      \/ ref_out.kind = "GenerationError"
      \/ /\ ref_out.kind = "returned"
         /\ Len(ref_out.value) = Len(original_person_registry)
         /\ \A i \in 1..Len(ref_out.value) :
              ref_out.value[i].person_id = original_person_registry[i].person_id

\* C30 (as stated): on a cache miss, whatever intervals fail, edit_frames
\* does not raise and returns exactly the intervals whose start and end
\* frame were both edited, in input order, each with its original index,
\* start_time, end_time, duration and fps; what it hands to the cache is the
\* list it returns.
C30_ReturnsEditedIntervals ==
    edit_out # NoOutcome =>
      /\ edit_out.kind = "returned"
      /\ Len(edit_out.value) = Len(BothEdited)
      /\ \A k \in 1..Len(edit_out.value) :
           k <= Len(BothEdited) =>
             EditedFrom(edit_out.value[k], cleaned_video_intervals[BothEdited[k]])
      /\ edit_cached.used =>
           edit_cached.data = [k \in 1..Len(edit_out.value) |-> ModelDump(edit_out.value[k])]

====
